---------------------------- MODULE Spec2Model ----------------------------
(***************************************************************************)
(* The Attractor execution engine of getaonepageapp: executeGraph drives   *)
(* one session through the fixed eight-node graph                          *)
(*   assess -> generate -> validate -> sanity_check -> build ->            *)
(*   build_validate -> deploy -> deliver                                   *)
(* with a bounded generate/validate revision loop and fallback edges to    *)
(* deliver.  One action per stage handler of executeNode, one for the      *)
(* deliver node, and one per awaited saveSession.                          *)
(*                                                                         *)
(* Abstractions.  Timestamps and durations are dropped from transition     *)
(* records.  A score is kept as four times its value (the sum of the four  *)
(* sub-scores) so that the average is exact; a sub-score that is not a     *)
(* number makes the score NaN, for which every comparison is false.  An    *)
(* HTML document is the set of tokens it contains.  Optional slots are     *)
(* sequences of length at most one.  Of a stage output the slot keeps the  *)
(* fields the engine reads afterwards and the edge the engine enforces;    *)
(* the prose fields, the sub-scores and the self-reported edge of the two  *)
(* review outputs are decoded and not kept.                                *)
(***************************************************************************)
EXTENDS Integers, Sequences, FiniteSets, TLC

(* ----------------------------- bounds --------------------------------- *)

\* sub-scores the review services may return
LowScore == 4
HighScore == 8
\* largest number of sections a generated site spec carries
MaxSections == 3
\* largest revision counter of a submission
MaxIteration == 1
\* how often a run may crash and be resumed from the store
MaxCrashes == 1
\* how many deliveries work on one submitter's credit record at a time
NumDeliveries == 2
\* the longest display name, in runs of characters
MaxRuns == 3
\* the longest project name
SlugLimit == 58

(* --------------------------- optional values -------------------------- *)

None == << >>
Some(x) == << x >>
IsSome(s) == Len(s) > 0
Val(s) == s[1]

(* ------------------------ program constants --------------------------- *)

\* mutant: one retry too many
MAX_GENERATE_ATTEMPTS_Three == 2 + 1
MAX_GENERATE_ATTEMPTS == 2
VALIDATE_PASS_THRESHOLD == 7
BUILD_VALIDATE_THRESHOLD == 7
SANITY_SCORE_THRESHOLD == 6
MIN_SECTIONS == 3
CREDITS_INCLUDED == 3

VALID_PRESETS == {"warm", "cool", "bold", "earth", "minimal", "custom"}

NodeId == {"assess", "generate", "validate", "sanity_check", "build",
           "build_validate", "deploy", "deliver"}

EdgeLabel == {"proceed", "generated", "passes", "needs_revision", "max_retries",
              "auto_build", "skip_build", "built", "build_failed", "html_passes",
              "html_fails", "deployed", "deploy_failed", "done"}

(* ------------------------------- scores ------------------------------- *)

\* a sub-score as decoded from the response: a number, or not a number
SubScores == [num : {TRUE}, v : {LowScore, HighScore}] \cup {[num |-> FALSE, v |-> 0]}

NaN == [nan |-> TRUE, x4 |-> 0]

\* (a + b + c + d) / 4, kept as the numerator
Average4(a, b, c, d) ==
  IF a.num /\ b.num /\ c.num /\ d.num
    THEN [nan |-> FALSE, x4 |-> a.v + b.v + c.v + d.v]
    ELSE NaN

\* score >= t and score < t on numbers; both false on NaN
ScoreGE(s, t) == ~s.nan /\ s.x4 >= 4 * t
ScoreLT(s, t) == ~s.nan /\ s.x4 < 4 * t

(* --------------------------- HTML documents --------------------------- *)

\* html.includes(marker)
Includes(html, marker) == marker \in html

Htmls == { {}, {"text"}, {"<!DOCTYPE", "text"}, {"<html", "text"} }

HasRootMarker(html) == Includes(html, "<!DOCTYPE") \/ Includes(html, "<html")

(* ------------------------------ submissions --------------------------- *)

\* body.data of the entry point, reduced to what the engine reads: the style
\* preset, whether both custom colours are #RRGGBB, whether the business name
\* and the contact address are non-blank
Intake(preset, hexOk, businessName, email) ==
  [stylePreset |-> preset, hexOk |-> hexOk, businessName |-> businessName, email |-> email]

Exhausted == Some([total |-> CREDITS_INCLUDED, used |-> CREDITS_INCLUDED])

\* the submissions explored: the request body's data and revision counter, and
\* the credit record the store holds for the submitter when the request arrives
Submissions ==
  { [intakeData |-> Intake("warm", TRUE, TRUE, TRUE),    iterationCount |-> 0, ledger |-> None],
    [intakeData |-> Intake("custom", TRUE, TRUE, TRUE),  iterationCount |-> MaxIteration, ledger |-> None],
    [intakeData |-> Intake("warm", TRUE, TRUE, TRUE),    iterationCount |-> MaxIteration, ledger |-> Exhausted],
    [intakeData |-> Intake("warm", TRUE, TRUE, FALSE),   iterationCount |-> MaxIteration, ledger |-> None],
    [intakeData |-> Intake("custom", FALSE, TRUE, TRUE), iterationCount |-> 0, ledger |-> Exhausted],
    [intakeData |-> Intake("neon", TRUE, TRUE, TRUE),    iterationCount |-> MaxIteration, ledger |-> Exhausted],
    [intakeData |-> Intake("warm", TRUE, FALSE, TRUE),   iterationCount |-> 0, ledger |-> None] }

\* the site specs a decoded generate response may carry: every section count
\* with both headings, and the full count with a heading empty
SiteSpecs ==
  {[sections |-> n, headline |-> TRUE, subheadline |-> TRUE] :
     n \in (MIN_SECTIONS - 1)..MaxSections}
  \cup {[sections |-> MaxSections, headline |-> FALSE, subheadline |-> TRUE],
        [sections |-> MaxSections, headline |-> TRUE, subheadline |-> FALSE]}

\* the capability bundles explored: every value of every capability, and
\* every pair of values of two capabilities, occurs in one of them
Environments ==
  { [INTAKE_KV |-> FALSE, CLOUDFLARE_API_TOKEN |-> TRUE,  CLOUDFLARE_ACCOUNT_ID |-> TRUE,  canEmail |-> FALSE],
    [INTAKE_KV |-> TRUE,  CLOUDFLARE_API_TOKEN |-> TRUE,  CLOUDFLARE_ACCOUNT_ID |-> TRUE,  canEmail |-> TRUE],
    [INTAKE_KV |-> FALSE, CLOUDFLARE_API_TOKEN |-> FALSE, CLOUDFLARE_ACCOUNT_ID |-> FALSE, canEmail |-> TRUE],
    [INTAKE_KV |-> TRUE,  CLOUDFLARE_API_TOKEN |-> FALSE, CLOUDFLARE_ACCOUNT_ID |-> TRUE,  canEmail |-> FALSE],
    [INTAKE_KV |-> FALSE, CLOUDFLARE_API_TOKEN |-> TRUE,  CLOUDFLARE_ACCOUNT_ID |-> FALSE, canEmail |-> TRUE],
    [INTAKE_KV |-> TRUE,  CLOUDFLARE_API_TOKEN |-> FALSE, CLOUDFLARE_ACCOUNT_ID |-> FALSE, canEmail |-> FALSE] }

VARIABLES
  env,            \* GraphEnv: which capabilities are configured
  currentNode,    \* ExecutionState.currentNode
  status,         \* ExecutionState.status
  history,        \* ExecutionState.history, records [from, to, edge]
  error,          \* ExecutionState.error
  context,        \* ExecutionState.context (SessionContext)
  pc,             \* position of executeGraph
  kvSession,      \* the store's session:<id> entry
  kvCredits,      \* the store's credits:<email> entry
  calls,          \* how often each stage handler has been entered
  deployCalls,    \* how often deployToCloudflare has been called
  reviews,        \* the recomputed scores validate has produced in this invocation
  creditOps,      \* how many ledger operations delivery has started
  emails,         \* the notifications delivery has dispatched
  crashes,        \* how often the run has crashed and been resumed
  ledgerCalls,    \* the ledger call each concurrent delivery is in
  scratch,        \* how many scratch directories of deployToCloudflare exist
  requests,       \* the model id of the last generation call of each stage
  arg,            \* the argument of the pure function last applied
  ret,            \* and what it returned
  form            \* the IntakeState of the intake form

vars == << env, currentNode, status, history, error, context, pc, kvSession,
           kvCredits, calls, deployCalls, reviews, creditOps, emails, crashes,
           ledgerCalls, scratch, requests, arg, ret, form >>

(* ------------------------------- engine ------------------------------- *)

\* mutant: the record is built after currentNode has been advanced
Transition_AfterAdvance(from, to, edge) == [from |-> to, to |-> to, edge |-> edge]

\* lines 97-103, 116-122: a transition record, without its clock readings
Transition(from, to, edge) == [from |-> from, to |-> to, edge |-> edge]

\* mutant: the state is written with the stage the last transition left
Snapshot_StaleNode(node, st, hist, ctx, err) ==
  [currentNode |-> IF Len(hist) > 0 THEN hist[Len(hist)].from ELSE node,
   status |-> st, history |-> hist, context |-> ctx, error |-> err]

\* the ExecutionState as saveSession writes it
Snapshot(node, st, hist, ctx, err) ==
  [currentNode |-> node, status |-> st, history |-> hist, context |-> ctx, error |-> err]

\* mutant: a session is created already completed
createSession_Completed(ctx) ==
  [currentNode |-> "assess", context |-> ctx, history |-> << >>, status |-> "completed"]

createSession(ctx) ==
  [currentNode |-> "assess", context |-> ctx, history |-> << >>, status |-> "running"]

\* mutant: the attempt counter starts at 1
InitialContext_OneAttempt(intake, iterationCount) ==
  [intakeData |-> intake,
   assessment |-> None, enhancement |-> None, validation |-> None,
   sanityCheck |-> None, build |-> None, buildValidation |-> None,
   deployment |-> None, delivery |-> None,
   generateAttempts |-> 1,
   iterationCount |-> iterationCount]

\* the SessionContext the entry point builds
InitialContext(intake, iterationCount) ==
  [intakeData |-> intake,
   assessment |-> None, enhancement |-> None, validation |-> None,
   sanityCheck |-> None, build |-> None, buildValidation |-> None,
   deployment |-> None, delivery |-> None,
   generateAttempts |-> 0,
   iterationCount |-> iterationCount]

\* the deliveries that share one submitter's credit record, and the ledger
\* call a delivery is in: the operation, the await it is at, the record it
\* holds, and how its last call ended
Deliveries == 1..NumDeliveries

Idle(outcome) == [op |-> "none", at |-> "idle", record |-> None, outcome |-> outcome]

(* ----------------------------- intake form ---------------------------- *)

FORM_STEPS == << "business", "project", "style", "contact", "review" >>

\* FORM_STEPS.indexOf(step)
IndexOf(step) == CHOOSE i \in 1..Len(FORM_STEPS) : FORM_STEPS[i] = step

\* the steps that have a validator
DataSteps == {"business", "project", "style", "contact"}

\* The IntakeState, reduced to what navigation reads: data[k] says whether the
\* validator of step k passes for the data entered; stepErrors[k] is "unset"
\* (no entry), "none" (the empty list) or "errors".  The empty form fails the
\* business, project and contact validators; the default warm preset passes.
createInitialState ==
  [currentStep |-> "business",
   data |-> [k \in DataSteps |-> k = "style"],
   stepErrors |-> [k \in DataSteps \cup {"review"} |-> "unset"],
   isSubmitted |-> FALSE]

\* stepValidators[step](state.data).valid
StepValid(state, step) == state.data[step]

\* validateAll(state.data).valid
validateAll(state) == \A k \in DataSteps : state.data[k]

\* mutant: the step being left is not validated
nextStep_NoValidation(state) ==
  LET idx == IndexOf(state.currentStep) IN
  IF idx >= Len(FORM_STEPS) THEN state
  ELSE [state EXCEPT !.currentStep = FORM_STEPS[idx + 1],
                     !.stepErrors[state.currentStep] = "none"]

nextStep(state) ==
  LET idx == IndexOf(state.currentStep) IN
  IF idx >= Len(FORM_STEPS) THEN state
  ELSE IF state.currentStep # "review" /\ ~StepValid(state, state.currentStep)
    THEN [state EXCEPT !.stepErrors[state.currentStep] = "errors"]
  ELSE [state EXCEPT !.currentStep = FORM_STEPS[idx + 1],
                     !.stepErrors[state.currentStep] = "none"]

prevStep(state) ==
  LET idx == IndexOf(state.currentStep) IN
  IF idx <= 1 THEN state ELSE [state EXCEPT !.currentStep = FORM_STEPS[idx - 1]]

goToStep(state, step) ==
  IF IndexOf(step) <= IndexOf(state.currentStep)
    THEN [state EXCEPT !.currentStep = step]
    ELSE state

\* valid: whether the step's validator passes for the patched data
updateStepData(state, stepKey, valid) ==
  [state EXCEPT !.data[stepKey] = valid, !.stepErrors[stepKey] = "none"]

submitForm(state) ==
  IF ~validateAll(state)
    THEN [state EXCEPT !.stepErrors["review"] = "errors"]
    ELSE [state EXCEPT !.isSubmitted = TRUE,
                       !.stepErrors = [k \in DataSteps \cup {"review"} |-> "unset"]]

\* the stages that call the generation service
GenerationNodes == {"assess", "generate", "validate", "build", "build_validate"}

Init ==
  \E e \in Environments, sub \in Submissions :
    LET s == createSession(InitialContext(sub.intakeData, sub.iterationCount)) IN
    /\ env = e
    /\ currentNode = s.currentNode
    /\ status = s.status
    /\ history = s.history
    /\ context = s.context
    /\ error = None
    /\ pc = "loop"
    \* the entry point persists the initial state when a store is configured
    /\ kvSession = IF e.INTAKE_KV
                     THEN Some(Snapshot(s.currentNode, s.status, s.history, s.context, None))
                     ELSE None
    /\ kvCredits = IF e.INTAKE_KV THEN sub.ledger ELSE None
    /\ calls = [n \in NodeId |-> 0]
    /\ deployCalls = 0
    /\ reviews = << >>
    /\ creditOps = 0
    /\ emails = {}
    /\ crashes = 0
    /\ ledgerCalls = [d \in Deliveries |-> Idle("none")]
    /\ scratch = 0
    /\ requests = [n \in GenerationNodes |-> None]
    /\ arg = None
    /\ ret = None
    /\ form = createInitialState

(* ------------------------- external responses ------------------------- *)

\* callClaude throws (non-2xx status) or JSON.parse throws on the text
CallFailures == {"api_error", "bad_json"}

AssessBodies == [edge : {"proceed", "passes"}]

GenerateBodies == [siteSpec : {None} \cup {Some(sp) : sp \in SiteSpecs},
                   edge : {"generated", "passes"}]

\* scores, the self-reported overallScore (times four) and the self-reported edge
ValidateBodies ==
  [clarity : SubScores, completeness : SubScores, ctaStrength : SubScores,
   sectionFlow : SubScores, overallScore : {4 * LowScore, 4 * HighScore},
   edge : {"passes", "needs_revision"}]

BuildBodies == [html : Htmls, edge : {"built", "passes"}]

BuildValidateBodies ==
  [structuralIntegrity : SubScores, responsiveness : SubScores,
   accessibility : SubScores, brandAlignment : SubScores,
   overallScore : {4 * LowScore, 4 * HighScore},
   edge : {"html_passes", "html_fails"}]

(* ------------------------------ parsers ------------------------------- *)

parseAssessOutput(body) == [edge |-> "proceed"]

parseGenerateOutput(body) == [siteSpec |-> body.siteSpec, edge |-> "generated"]

\* mutant: the self-reported overallScore is kept
parseValidateOutput_TrustReported(body) ==
  [overallScore |-> [nan |-> FALSE, x4 |-> body.overallScore]]

\* the recomputed overallScore; the self-reported one is overwritten
parseValidateOutput(body) ==
  [overallScore |-> Average4(body.clarity, body.completeness,
                             body.ctaStrength, body.sectionFlow)]

\* mutant: the html field is not inspected
parseBuildOutput_NoRootCheck(body) ==
  [ok |-> TRUE, output |-> [html |-> body.html, edge |-> "built"]]

\* ok = FALSE stands for the thrown "Build output missing valid HTML document"
parseBuildOutput(body) ==
  [ok |-> ~(body.html = {}
            \/ (~Includes(body.html, "<!DOCTYPE") /\ ~Includes(body.html, "<html"))),
   output |-> [html |-> body.html, edge |-> "built"]]

parseBuildValidateOutput(body) ==
  [overallScore |-> Average4(body.structuralIntegrity, body.responsiveness,
                             body.accessibility, body.brandAlignment)]

(* --------------------------- sanity check ----------------------------- *)

\* the reasons pushed by the six checks, in order; "ok" is the affirming reason
evaluateSanityCheck(ctx) ==
  LET spec == IF IsSome(ctx.enhancement) THEN Val(ctx.enhancement).siteSpec ELSE None
      style == ctx.intakeData
      r1 == IF ~IsSome(spec) \/ Val(spec).sections < MIN_SECTIONS
              THEN << "sections" >> ELSE << >>
      r2 == IF ~IsSome(spec) \/ ~Val(spec).headline \/ ~Val(spec).subheadline
              THEN << "headline" >> ELSE << >>
      r3 == IF IsSome(ctx.validation)
               /\ ScoreLT(Val(ctx.validation).overallScore, SANITY_SCORE_THRESHOLD)
              THEN << "score" >> ELSE << >>
      r4 == IF style.stylePreset \notin VALID_PRESETS THEN << "preset" >> ELSE << >>
      r5 == IF style.stylePreset = "custom" /\ ~style.hexOk THEN << "hex" >> ELSE << >>
      r6 == IF ~ctx.intakeData.businessName THEN << "name" >> ELSE << >>
      failing == r1 \o r2 \o r3 \o r4 \o r5 \o r6
      qualifies == failing = << >>
  IN [qualifies |-> qualifies,
      reasons |-> IF qualifies THEN << "ok" >> ELSE failing,
      edge |-> IF qualifies THEN "auto_build" ELSE "skip_build"]

(* ------------------------------ routing ------------------------------- *)

Route(nextNode, edge) == [nextNode |-> nextNode, edge |-> edge]

\* mutant: the pass test is strict, a score of exactly 7 does not pass
ValidateRoute_StrictPass(output, generateAttempts) ==
  LET canRetry == generateAttempts < MAX_GENERATE_ATTEMPTS IN
  IF ScoreGE(output.overallScore, VALIDATE_PASS_THRESHOLD)
     /\ output.overallScore.x4 # 4 * VALIDATE_PASS_THRESHOLD
    THEN Route("sanity_check", "passes")
    ELSE IF canRetry THEN Route("generate", "needs_revision")
                     ELSE Route("sanity_check", "max_retries")

\* mutant: the retry test comes first, a passing first review is revised anyway
ValidateRoute_RetryFirst(output, generateAttempts) ==
  LET canRetry == generateAttempts < MAX_GENERATE_ATTEMPTS IN
  IF canRetry THEN Route("generate", "needs_revision")
  ELSE IF ScoreGE(output.overallScore, VALIDATE_PASS_THRESHOLD)
    THEN Route("sanity_check", "passes")
    ELSE Route("sanity_check", "max_retries")

\* mutant: canRetry compares with <=, the breaker trips one attempt late
ValidateRoute_LateBreaker(output, generateAttempts) ==
  LET canRetry == generateAttempts <= MAX_GENERATE_ATTEMPTS IN
  IF ScoreGE(output.overallScore, VALIDATE_PASS_THRESHOLD)
    THEN Route("sanity_check", "passes")
    ELSE IF canRetry THEN Route("generate", "needs_revision")
                     ELSE Route("sanity_check", "max_retries")

\* case "validate": the three-way branch after parseValidateOutput
ValidateRoute(output, generateAttempts) ==
  LET canRetry == generateAttempts < MAX_GENERATE_ATTEMPTS IN
  IF ScoreGE(output.overallScore, VALIDATE_PASS_THRESHOLD)
    THEN Route("sanity_check", "passes")
    ELSE IF canRetry THEN Route("generate", "needs_revision")
                     ELSE Route("sanity_check", "max_retries")

\* mutant: the gate's verdict is not used for the next node
SanityRoute_AlwaysBuild(output) ==
  Route("build", output.edge)

\* case "sanity_check"
SanityRoute(output) ==
  Route(IF output.qualifies THEN "build" ELSE "deliver", output.edge)

\* mutant: the build review passes at the sanity threshold
BuildValidateRoute_LowBar(output) ==
  IF ScoreGE(output.overallScore, SANITY_SCORE_THRESHOLD)
    THEN Route("deploy", "html_passes")
    ELSE Route("deliver", "html_fails")

\* case "build_validate": the branch in the try block
BuildValidateRoute(output) ==
  IF ScoreGE(output.overallScore, BUILD_VALIDATE_THRESHOLD)
    THEN Route("deploy", "html_passes")
    ELSE Route("deliver", "html_fails")

\* the fallback outputs of the catch blocks and of the missing-credentials branch
BuildFallback == [html |-> {}, edge |-> "built"]
BuildValidateFallback == [overallScore |-> [nan |-> FALSE, x4 |-> 0]]
\* mutant: the deploy fallback keeps a URL
DeployFallback_StaleUrl == [deploymentUrl |-> "https://site.pages.dev", edge |-> "deployed"]
DeployFallback == [deploymentUrl |-> "", edge |-> "deployed"]

applyOutput(ctx, nodeId, output) ==
  CASE nodeId = "assess" -> [ctx EXCEPT !.assessment = Some(output)]
    [] nodeId = "generate" -> [ctx EXCEPT !.enhancement = Some(output)]
    [] nodeId = "validate" -> [ctx EXCEPT !.validation = Some(output)]
    [] nodeId = "sanity_check" -> [ctx EXCEPT !.sanityCheck = Some(output)]
    [] nodeId = "build" -> [ctx EXCEPT !.build = Some(output)]
    [] nodeId = "build_validate" -> [ctx EXCEPT !.buildValidation = Some(output)]
    [] nodeId = "deploy" -> [ctx EXCEPT !.deployment = Some(output)]
    [] OTHER -> ctx

(* ------------------------- executeGraph: the loop --------------------- *)

\* mutant: the while condition joins its two tests with ||
LoopContinues_Or == currentNode # "deliver" \/ status = "running"

\* line 87: the while condition
LoopContinues == currentNode # "deliver" /\ status = "running"

(* --------------------- model routing (model-router.ts) ---------------- *)

MODEL_IDS ==
  [haiku  |-> "claude-haiku-4-5-20251001",
   sonnet |-> "claude-sonnet-4-20250514",
   opus   |-> "claude-opus-4-20250514"]

\* scores: complexity, reasoning_depth, domain_specificity, ambiguity, stakes
Scores(c, r, d, a, s) ==
  [complexity |-> c, reasoning_depth |-> r, domain_specificity |-> d,
   ambiguity |-> a, stakes |-> s]

\* the classification table: tier, model id and dimension scores of each entry
NODE_CLASSIFICATIONS ==
  [assess         |-> [model |-> "haiku", modelId |-> Some(MODEL_IDS.haiku),
                       scores |-> Scores(2, 2, 2, 1, 1)],
   generate       |-> [model |-> "sonnet", modelId |-> Some(MODEL_IDS.sonnet),
                       scores |-> Scores(3, 3, 3, 3, 4)],
   validate       |-> [model |-> "haiku", modelId |-> Some(MODEL_IDS.haiku),
                       scores |-> Scores(2, 3, 2, 1, 3)],
   build          |-> [model |-> "sonnet", modelId |-> Some(MODEL_IDS.sonnet),
                       scores |-> Scores(5, 4, 4, 3, 5)],
   build_validate |-> [model |-> "haiku", modelId |-> Some(MODEL_IDS.haiku),
                       scores |-> Scores(3, 3, 3, 2, 3)]]

\* the routing thresholds of the file header, on five times the average:
\* 1.0-2.0 haiku, 2.1-3.5 sonnet, 3.6-5.0 opus, one tier up on any 5
Tiers == << "haiku", "sonnet", "opus" >>

RoutingThresholds(scores) ==
  LET sum == scores.complexity + scores.reasoning_depth + scores.domain_specificity
             + scores.ambiguity + scores.stakes
      base == IF sum <= 10 THEN 1 ELSE IF sum < 18 THEN 2 ELSE 3
      any5 == \E f \in DOMAIN scores : scores[f] = 5
  IN  Tiers[IF any5 /\ base < 3 THEN base + 1 ELSE base]

\* the table is an object literal: besides its own keys it answers to the
\* members it inherits, none of which has a modelId
ObjectPrototype == {"constructor", "toString", "valueOf", "hasOwnProperty"}

\* NODE_CLASSIFICATIONS[nodeId]: None stands for undefined
Classification(nodeId) ==
  IF nodeId \in DOMAIN NODE_CLASSIFICATIONS THEN Some(NODE_CLASSIFICATIONS[nodeId])
  ELSE IF nodeId \in ObjectPrototype THEN Some([modelId |-> None])
  ELSE None

\* the ?? default applies only when the lookup is undefined
getNodeModel(nodeId) ==
  IF IsSome(Classification(nodeId)) THEN Val(Classification(nodeId))
  ELSE [model |-> "sonnet", modelId |-> Some(MODEL_IDS.sonnet),
        scores |-> Scores(3, 3, 3, 3, 3)]

\* the model id, None when the classification found has none
getModelId(nodeId) == getNodeModel(nodeId).modelId

\* the identifiers getModelId is applied to
Identifiers == NodeId \cup ObjectPrototype \cup {"unknown_node", ""}

\* callClaude(prompt, apiKey, getModelId(nodeId)): the request carries the id
CallClaude(nodeId) == requests' = [requests EXCEPT ![nodeId] = Some(getModelId(nodeId))]

\* the loop is about to execute nodeId
InLoop(nodeId) == pc = "loop" /\ LoopContinues /\ currentNode = nodeId

Enter(nodeId) == calls' = [calls EXCEPT ![nodeId] = @ + 1]

\* mutant: the saveSession after a transition is not awaited
Advance_NoAwait(ctx, nodeId, output, route) ==
  /\ context' = applyOutput(ctx, nodeId, output)
  /\ history' = Append(history, Transition(nodeId, route.nextNode, route.edge))
  /\ currentNode' = route.nextNode
  /\ pc' = "loop"
  /\ UNCHANGED << status, error >>

\* lines 94-110: apply the output, record the transition, advance, then persist
Advance(ctx, nodeId, output, route) ==
  /\ context' = applyOutput(ctx, nodeId, output)
  /\ history' = Append(history, Transition(nodeId, route.nextNode, route.edge))
  /\ currentNode' = route.nextNode
  /\ pc' = IF env.INTAKE_KV THEN "persist" ELSE "loop"
  /\ UNCHANGED << status, error >>

\* mutant: the failure is swallowed and the run falls through to delivery
Fail_Swallowed(ctx, msg) ==
  /\ context' = ctx
  /\ currentNode' = "deliver"
  /\ pc' = "loop"
  /\ UNCHANGED << history, status, error >>

\* the catch block of executeGraph up to its saveSession
Fail(ctx, msg) ==
  /\ context' = ctx
  /\ status' = "failed"
  /\ error' = Some(msg)
  /\ pc' = IF env.INTAKE_KV THEN "catch" ELSE "thrown"
  /\ UNCHANGED << history, currentNode >>

Assess ==
  /\ InLoop("assess")
  /\ Enter("assess")
  /\ \/ \E f \in CallFailures : Fail(context, f)
     \/ \E body \in AssessBodies :
          Advance(context, "assess", parseAssessOutput(body), Route("generate", "proceed"))
  /\ UNCHANGED << env, crashes, ledgerCalls, kvSession, kvCredits, deployCalls, reviews, creditOps, emails >>
  /\ CallClaude("assess")
  /\ UNCHANGED << scratch, arg, ret, form >>

Generate ==
  /\ InLoop("generate")
  /\ Enter("generate")
  /\ LET ctx == [context EXCEPT !.generateAttempts = @ + 1] IN
     \/ \E f \in CallFailures : Fail(ctx, f)
     \/ \E body \in GenerateBodies :
          Advance(ctx, "generate", parseGenerateOutput(body), Route("validate", "generated"))
  /\ UNCHANGED << env, crashes, ledgerCalls, kvSession, kvCredits, deployCalls, reviews, creditOps, emails >>
  /\ CallClaude("generate")
  /\ UNCHANGED << scratch, arg, ret, form >>

Validate ==
  /\ InLoop("validate")
  /\ Enter("validate")
  /\ \/ /\ \E f \in CallFailures : Fail(context, f)
        /\ UNCHANGED reviews
     \/ \E body \in ValidateBodies :
          LET output == parseValidateOutput(body) IN
          /\ Advance(context, "validate", output,
                     ValidateRoute(output, context.generateAttempts))
          /\ reviews' = Append(reviews, output.overallScore)
  /\ UNCHANGED << env, crashes, ledgerCalls, kvSession, kvCredits, deployCalls, creditOps, emails >>
  /\ CallClaude("validate")
  /\ UNCHANGED << scratch, arg, ret, form >>

SanityCheck ==
  /\ InLoop("sanity_check")
  /\ Enter("sanity_check")
  /\ LET output == evaluateSanityCheck(context) IN
     Advance(context, "sanity_check", output, SanityRoute(output))
  /\ UNCHANGED << env, crashes, ledgerCalls, kvSession, kvCredits, deployCalls, reviews, creditOps, emails >>
  /\ UNCHANGED << scratch, requests, arg, ret, form >>

\* mutant: the build node has no catch block
OnBuildError_Propagates == Fail(context, "api_error")

\* lines 200-210: the catch block of case "build"
OnBuildError ==
  Advance([context EXCEPT !.build = Some(BuildFallback)], "build", BuildFallback,
          Route("deliver", "build_failed"))

Build ==
  /\ InLoop("build")
  /\ Enter("build")
  /\ \/ /\ \E f \in CallFailures : TRUE
        /\ OnBuildError
     \/ \E body \in BuildBodies :
          LET parsed == parseBuildOutput(body) IN
          IF parsed.ok
            THEN Advance(context, "build", parsed.output, Route("build_validate", "built"))
            ELSE OnBuildError
  /\ UNCHANGED << env, crashes, ledgerCalls, kvSession, kvCredits, deployCalls, reviews, creditOps, emails >>
  /\ CallClaude("build")
  /\ UNCHANGED << scratch, arg, ret, form >>

BuildValidate ==
  /\ InLoop("build_validate")
  /\ Enter("build_validate")
  /\ \/ \E f \in CallFailures :
          Advance(context, "build_validate", BuildValidateFallback,
                  Route("deliver", "html_fails"))
     \/ \E body \in BuildValidateBodies :
          LET output == parseBuildValidateOutput(body) IN
          Advance(context, "build_validate", output, BuildValidateRoute(output))
  /\ UNCHANGED << env, crashes, ledgerCalls, kvSession, kvCredits, deployCalls, reviews, creditOps, emails >>
  /\ CallClaude("build_validate")
  /\ UNCHANGED << scratch, arg, ret, form >>

\* mutant: the credential check joins its two tests with &&
HasDeployCredentials_Either(e) == e.CLOUDFLARE_API_TOKEN \/ e.CLOUDFLARE_ACCOUNT_ID

\* the credential check of case "deploy"
HasDeployCredentials(e) == e.CLOUDFLARE_API_TOKEN /\ e.CLOUDFLARE_ACCOUNT_ID

\* what one call of deployToCloudflare can meet
DeployOutcomes == {"ok", "mkdtemp_error", "write_error", "wrangler_error"}

\* mkdtemp and writeFile run before the try whose finally removes the
\* directory; rm itself is taken to succeed.  leaked counts the directories
\* the call leaves behind.
deployToCloudflare(outcome) ==
  [threw         |-> outcome # "ok",
   deploymentUrl |-> "https://site.pages.dev",
   leaked        |-> IF outcome = "write_error" THEN 1 ELSE 0]

Deploy ==
  /\ InLoop("deploy")
  /\ Enter("deploy")
  /\ IF ~HasDeployCredentials(env)
       THEN /\ Advance(context, "deploy", DeployFallback, Route("deliver", "deploy_failed"))
            /\ UNCHANGED << deployCalls, scratch >>
       ELSE \E outcome \in DeployOutcomes :
              LET result == deployToCloudflare(outcome) IN
              /\ deployCalls' = deployCalls + 1
              /\ scratch' = scratch + result.leaked
              /\ IF result.threw
                   THEN Advance(context, "deploy", DeployFallback,
                                Route("deliver", "deploy_failed"))
                   ELSE Advance(context, "deploy",
                                [deploymentUrl |-> result.deploymentUrl, edge |-> "deployed"],
                                Route("deliver", "deployed"))
  /\ UNCHANGED << env, crashes, ledgerCalls, kvSession, kvCredits, reviews, creditOps, emails >>
  /\ UNCHANGED << requests, arg, ret, form >>

\* line 109: the awaited saveSession after a transition
Persist ==
  /\ pc = "persist"
  /\ \/ /\ kvSession' = Some(Snapshot(currentNode, status, history, context, error))
        /\ pc' = "loop"
        /\ UNCHANGED << status, error >>
     \/ /\ status' = "failed"
        /\ error' = Some("kv_error")
        /\ pc' = "catch"
        /\ UNCHANGED kvSession
  /\ UNCHANGED << env, crashes, ledgerCalls, currentNode, history, context, kvCredits, calls, deployCalls,
                  reviews, creditOps, emails >>
  /\ UNCHANGED << scratch, requests, arg, ret, form >>

\* line 136: the best-effort saveSession of the catch block, then the rethrow
CatchPersist ==
  /\ pc = "catch"
  /\ \/ kvSession' = Some(Snapshot(currentNode, status, history, context, error))
     \/ UNCHANGED kvSession
  /\ pc' = "thrown"
  /\ UNCHANGED << env, crashes, ledgerCalls, currentNode, status, history, error, context, kvCredits, calls,
                  deployCalls, reviews, creditOps, emails >>
  /\ UNCHANGED << scratch, requests, arg, ret, form >>

(* ---------------------------- credit ledger --------------------------- *)

\* Store calls may reject.  fault names the store call that rejects:
\* 0 none, 1 the load, 2 the save of a new record, 3 the save of the deduction.
CreditFaults == 0..3

creditsRemaining(record) ==
  IF record.total - record.used > 0 THEN record.total - record.used ELSE 0

\* result: threw, the store afterwards, the record returned
getOrCreateCredits(store, fault) ==
  IF fault = 1 THEN [threw |-> TRUE, store |-> store, record |-> None]
  ELSE IF IsSome(store) THEN [threw |-> FALSE, store |-> store, record |-> store]
  ELSE LET record == [total |-> CREDITS_INCLUDED, used |-> 0] IN
       IF fault = 2 THEN [threw |-> TRUE, store |-> store, record |-> None]
       ELSE [threw |-> FALSE, store |-> Some(record), record |-> Some(record)]

\* mutant: the deduction charges two credits
deductCredit_Twice(store, fault) ==
  LET got == getOrCreateCredits(store, fault) IN
  IF got.threw THEN got
  ELSE LET record == Val(got.record)
           remaining == record.total - record.used
           updated == [record EXCEPT !.used = @ + 2] IN
       IF remaining <= 0 THEN [threw |-> TRUE, store |-> got.store, record |-> None]
       ELSE IF fault = 3 THEN [threw |-> TRUE, store |-> got.store, record |-> None]
       ELSE [threw |-> FALSE, store |-> Some(updated), record |-> Some(updated)]

\* deductCredit, its awaits taken together
deductCredit(store, fault) ==
  LET got == getOrCreateCredits(store, fault) IN
  IF got.threw THEN got
  ELSE LET record == Val(got.record)
           remaining == record.total - record.used
           updated == [record EXCEPT !.used = @ + 1] IN
       IF remaining <= 0 THEN [threw |-> TRUE, store |-> got.store, record |-> None]
       ELSE IF fault = 3 THEN [threw |-> TRUE, store |-> got.store, record |-> None]
       ELSE [threw |-> FALSE, store |-> Some(updated), record |-> Some(updated)]

(* ------------- the ledger calls of concurrent deliveries -------------- *)

\* The same two functions, one await at a time: kv.get in loadCredits, kv.set
\* in saveCredits for a new record, kv.set in saveCredits for the deduction.
\* Between two awaits of one delivery the other deliveries take their steps.

\* mutant: the guard of deductCredit compares with <
NoCreditsRemaining_Negative(record) == record.total - record.used < 0

\* remaining <= 0 in deductCredit
NoCreditsRemaining(record) == record.total - record.used <= 0

\* the call returns record to its delivery
Returned(d, record) ==
  ledgerCalls' = [ledgerCalls EXCEPT ![d] =
                    [op |-> ledgerCalls[d].op, at |-> "idle", record |-> Some(record),
                     outcome |-> "returned"]]
Threw(d) == ledgerCalls' = [ledgerCalls EXCEPT ![d] = Idle("threw")]
Await(d, at, record) ==
  ledgerCalls' = [ledgerCalls EXCEPT ![d].at = at, ![d].record = Some(record)]

\* the part of deductCredit that follows getOrCreateCredits, up to its await
AfterGetOrCreate(d, record) ==
  IF ledgerCalls[d].op = "getOrCreateCredits"
    THEN Returned(d, record)
    ELSE IF NoCreditsRemaining(record)
           THEN Threw(d)
           ELSE Await(d, "save_deduction", record)

\* a delivery calls getOrCreateCredits or deductCredit for the submitter
CallLedger(d) ==
  /\ env.INTAKE_KV
  /\ ledgerCalls[d].at = "idle"
  /\ \E op \in {"getOrCreateCredits", "deductCredit"} :
       ledgerCalls' = [ledgerCalls EXCEPT ![d] =
                         [op |-> op, at |-> "load", record |-> None, outcome |-> "none"]]
  /\ UNCHANGED << env, currentNode, status, history, error, context, pc, kvSession,
                  kvCredits, calls, deployCalls, reviews, creditOps, emails, crashes >>
  /\ UNCHANGED << scratch, requests, arg, ret, form >>

\* loadCredits resolves or rejects
LoadCredits(d) ==
  /\ ledgerCalls[d].at = "load"
  /\ \/ Threw(d)
     \/ IF IsSome(kvCredits)
          THEN AfterGetOrCreate(d, Val(kvCredits))
          ELSE Await(d, "save_new", [total |-> CREDITS_INCLUDED, used |-> 0])
  /\ UNCHANGED << env, currentNode, status, history, error, context, pc, kvSession,
                  kvCredits, calls, deployCalls, reviews, creditOps, emails, crashes >>
  /\ UNCHANGED << scratch, requests, arg, ret, form >>

\* saveCredits of the record getOrCreateCredits has made resolves or rejects
SaveNewCredits(d) ==
  /\ ledgerCalls[d].at = "save_new"
  /\ \/ Threw(d) /\ UNCHANGED kvCredits
     \/ /\ kvCredits' = ledgerCalls[d].record
        /\ AfterGetOrCreate(d, Val(ledgerCalls[d].record))
  /\ UNCHANGED << env, currentNode, status, history, error, context, pc, kvSession,
                  calls, deployCalls, reviews, creditOps, emails, crashes >>
  /\ UNCHANGED << scratch, requests, arg, ret, form >>

\* mutant: the write is conditional on the store still holding the record read
SaveDeduction_CompareAndSwap(d) ==
  /\ ledgerCalls[d].at = "save_deduction"
  /\ \/ Threw(d) /\ UNCHANGED kvCredits
     \/ /\ kvCredits = ledgerCalls[d].record
        /\ kvCredits' = Some([Val(ledgerCalls[d].record) EXCEPT !.used = @ + 1])
        /\ Returned(d, [Val(ledgerCalls[d].record) EXCEPT !.used = @ + 1])
  /\ UNCHANGED << env, currentNode, status, history, error, context, pc, kvSession,
                  calls, deployCalls, reviews, creditOps, emails, crashes >>
  /\ UNCHANGED << scratch, requests, arg, ret, form >>

\* saveCredits of the updated record of deductCredit resolves or rejects
SaveDeduction(d) ==
  /\ ledgerCalls[d].at = "save_deduction"
  /\ \/ Threw(d) /\ UNCHANGED kvCredits
     \/ /\ kvCredits' = Some([Val(ledgerCalls[d].record) EXCEPT !.used = @ + 1])
        /\ Returned(d, [Val(ledgerCalls[d].record) EXCEPT !.used = @ + 1])
  /\ UNCHANGED << env, currentNode, status, history, error, context, pc, kvSession,
                  calls, deployCalls, reviews, creditOps, emails, crashes >>
  /\ UNCHANGED << scratch, requests, arg, ret, form >>

LedgerNext ==
  \/ \E d \in Deliveries : CallLedger(d)
  \/ \E d \in Deliveries : LoadCredits(d)
  \/ \E d \in Deliveries : SaveNewCredits(d)
  \/ \E d \in Deliveries : SaveDeduction(d)

\* the credit record of one submitter under concurrent deliveries
LedgerSpec == Init /\ [][LedgerNext]_vars

(* ------------------------------ delivery ------------------------------ *)

\* mutant: the deduction has no catch, its error leaves the delivery
DeliverCredits_Rethrow(ctx, e, store, f1, f2) ==
  IF ~(e.INTAKE_KV /\ ctx.intakeData.email)
    THEN [threw |-> FALSE, store |-> store, remaining |-> 3, ops |-> 0]
  ELSE IF ctx.iterationCount > 0
    THEN LET d == deductCredit(store, f1) IN
         IF ~d.threw
           THEN [threw |-> FALSE, store |-> d.store,
                 remaining |-> creditsRemaining(Val(d.record)), ops |-> 1]
           ELSE [threw |-> TRUE, store |-> d.store, remaining |-> 3, ops |-> 1]
  ELSE LET g == getOrCreateCredits(store, f2) IN
       IF g.threw
         THEN [threw |-> TRUE, store |-> g.store, remaining |-> 3, ops |-> 1]
         ELSE [threw |-> FALSE, store |-> g.store,
               remaining |-> creditsRemaining(Val(g.record)), ops |-> 1]

\* lines 297-315 of executeDeliverNode: threw, the store afterwards, the
\* remaining credit, and the number of ledger operations started
DeliverCredits(ctx, e, store, f1, f2) ==
  IF ~(e.INTAKE_KV /\ ctx.intakeData.email)
    THEN [threw |-> FALSE, store |-> store, remaining |-> 3, ops |-> 0]
  ELSE IF ctx.iterationCount > 0
    THEN LET d == deductCredit(store, f1) IN
         IF ~d.threw
           THEN [threw |-> FALSE, store |-> d.store,
                 remaining |-> creditsRemaining(Val(d.record)), ops |-> 1]
           ELSE LET g == getOrCreateCredits(d.store, f2) IN
                IF g.threw
                  THEN [threw |-> TRUE, store |-> g.store, remaining |-> 3, ops |-> 2]
                  ELSE [threw |-> FALSE, store |-> g.store,
                        remaining |-> creditsRemaining(Val(g.record)), ops |-> 2]
  ELSE LET g == getOrCreateCredits(store, f2) IN
       IF g.threw
         THEN [threw |-> TRUE, store |-> g.store, remaining |-> 3, ops |-> 1]
         ELSE [threw |-> FALSE, store |-> g.store,
               remaining |-> creditsRemaining(Val(g.record)), ops |-> 1]

\* mutant: ?? in place of ||, an empty URL counts as a URL
SiteUrl_SlotPresent(ctx) ==
  IF IsSome(ctx.deployment)
    THEN Some(Val(ctx.deployment).deploymentUrl)
    ELSE None

\* context.deployment?.deploymentUrl || undefined
SiteUrl(ctx) ==
  IF IsSome(ctx.deployment) /\ Val(ctx.deployment).deploymentUrl # ""
    THEN Some(Val(ctx.deployment).deploymentUrl)
    ELSE None

\* lines 317-394: the two dispatches and the flags read from their outcomes
DeliverOutput(ctx, e, remaining, teamOk, clientOk) ==
  [teamEmailSent |-> e.canEmail /\ teamOk,
   clientEmailSent |-> e.canEmail /\ (IF ctx.intakeData.email THEN clientOk ELSE TRUE),
   creditsRemaining |-> remaining,
   siteUrl |-> SiteUrl(ctx),
   edge |-> "done"]

\* mutant: only the team dispatch is made
Dispatched_TeamOnly(ctx, e) == IF e.canEmail THEN {"team"} ELSE {}

\* lines 348-377: the dispatches started, both inside one Promise.allSettled
Dispatched(ctx, e) ==
  IF ~e.canEmail THEN {}
  ELSE IF ctx.intakeData.email THEN {"team", "client"} ELSE {"team"}

\* the store calls that can reject, and the dispatches that have an outcome
DeductFaults(ctx, e) ==
  IF e.INTAKE_KV /\ ctx.intakeData.email /\ ctx.iterationCount > 0 THEN CreditFaults ELSE {0}
LookupFaults(ctx, e) ==
  IF e.INTAKE_KV /\ ctx.intakeData.email THEN 0..2 ELSE {0}
TeamOutcomes(e) == IF e.canEmail THEN BOOLEAN ELSE {FALSE}
ClientOutcomes(ctx, e) == IF e.canEmail /\ ctx.intakeData.email THEN BOOLEAN ELSE {FALSE}

\* lines 113-125: the deliver node, its transition record and the completed status
Deliver ==
  /\ pc = "loop"
  /\ ~LoopContinues
  /\ Enter("deliver")
  /\ IF ~IsSome(context.enhancement)
       THEN /\ Fail(context, "no_enhancement")
            /\ UNCHANGED << kvCredits, creditOps, emails >>
       ELSE \E f1 \in DeductFaults(context, env), f2 \in LookupFaults(context, env),
               teamOk \in TeamOutcomes(env), clientOk \in ClientOutcomes(context, env) :
              LET c == DeliverCredits(context, env, kvCredits, f1, f2) IN
              /\ kvCredits' = c.store
              /\ creditOps' = creditOps + c.ops
              /\ IF c.threw
                   THEN /\ Fail(context, "kv_error")
                        /\ UNCHANGED emails
                   ELSE /\ emails' = emails \cup Dispatched(context, env)
                        /\ history' = Append(history, Transition("deliver", "deliver", "done"))
                        /\ context' = [context EXCEPT !.delivery =
                             Some(DeliverOutput(context, env, c.remaining, teamOk, clientOk))]
                        /\ status' = "completed"
                        /\ pc' = IF env.INTAKE_KV THEN "persist_final" ELSE "returned"
                        /\ UNCHANGED << currentNode, error >>
  /\ UNCHANGED << env, crashes, ledgerCalls, kvSession, deployCalls, reviews >>
  /\ UNCHANGED << scratch, requests, arg, ret, form >>

\* line 128: the awaited saveSession of the completed state, then the return
PersistFinal ==
  /\ pc = "persist_final"
  /\ \/ /\ kvSession' = Some(Snapshot(currentNode, status, history, context, error))
        /\ pc' = "returned"
        /\ UNCHANGED << status, error >>
     \/ /\ status' = "failed"
        /\ error' = Some("kv_error")
        /\ pc' = "catch"
        /\ UNCHANGED kvSession
  /\ UNCHANGED << env, crashes, ledgerCalls, currentNode, history, context, kvCredits, calls, deployCalls,
                  reviews, creditOps, emails >>
  /\ UNCHANGED << scratch, requests, arg, ret, form >>

\* lines 463-474: the GraphResult executeGraph returns
buildResult ==
  [status |-> status,
   enhancement |-> context.enhancement,
   validationScore |-> IF IsSome(context.validation)
                         THEN Some(Val(context.validation).overallScore) ELSE None,
   creditsRemaining |-> IF IsSome(context.delivery)
                          THEN Some(Val(context.delivery).creditsRemaining) ELSE None,
   siteUrl |-> SiteUrl(context),
   history |-> history]

(* ----------------------------- entry point --------------------------- *)

\* crypto.randomUUID() of the entry point
SessionId == "session"

\* mutant: the failure body carries no history
POST_NoHistory ==
  [code |-> IF pc = "thrown" THEN 502 ELSE 200,
   error |-> IF pc = "thrown" THEN error ELSE None,
   sessionId |-> SessionId,
   status |-> IF pc = "thrown" THEN "failed" ELSE buildResult.status,
   history |-> << >>]

\* the response of POST /api/submit-intake once executeGraph has returned
\* (the result, 200) or thrown (the structured failure, 502)
POST ==
  [code |-> IF pc = "thrown" THEN 502 ELSE 200,
   error |-> IF pc = "thrown" THEN error ELSE None,
   sessionId |-> SessionId,
   status |-> IF pc = "thrown" THEN "failed" ELSE buildResult.status,
   history |-> IF pc = "thrown" THEN history ELSE buildResult.history]

Next ==
  \/ Assess
  \/ Generate
  \/ Validate
  \/ SanityCheck
  \/ Build
  \/ BuildValidate
  \/ Deploy
  \/ Deliver
  \/ Persist
  \/ PersistFinal
  \/ CatchPersist

Spec == Init /\ [][Next]_vars

\* every awaited call returns or throws, so executeGraph keeps taking steps
LiveSpec == Init /\ [][Next]_vars /\ WF_vars(Next)

(* ---------------- pure functions applied to drawn inputs -------------- *)

\* a display name is its sequence of maximal runs of characters, each run
\* either of [a-z0-9] after lower-casing or of anything else
RunLengths == {1, SlugLimit - 1, SlugLimit, SlugLimit + 1}

Run(alnum, len) == [alnum |-> alnum, len |-> len]

Names ==
  { n \in UNION { [1..k -> [alnum : BOOLEAN, len : RunLengths]] : k \in 0..MaxRuns } :
      \A i \in 1..(Len(n) - 1) : n[i].alnum # n[i + 1].alnum }

RECURSIVE Length(_)
Length(text) == IF text = << >> THEN 0 ELSE Head(text).len + Length(Tail(text))

\* .replace(/[^a-z0-9]+/g, "-")
Hyphenate(text) ==
  [i \in 1..Len(text) |-> IF text[i].alnum THEN text[i] ELSE Run(FALSE, 1)]

\* .replace(/^-+|-+$/g, "")
TrimHyphens(text) ==
  LET front == IF text # << >> /\ ~Head(text).alnum THEN Tail(text) ELSE text
  IN  IF front # << >> /\ ~front[Len(front)].alnum
        THEN SubSeq(front, 1, Len(front) - 1)
        ELSE front

\* .slice(0, n)
RECURSIVE Slice(_, _)
Slice(text, n) ==
  IF text = << >> \/ n = 0 THEN << >>
  ELSE IF Head(text).len >= n THEN << Run(Head(text).alnum, n) >>
  ELSE << Head(text) >> \o Slice(Tail(text), n - Head(text).len)

Site == << Run(TRUE, 4) >>

\* mutant: the empty slug is returned as it is
slugifyProjectName_NoFallback(businessName) ==
  Slice(TrimHyphens(Hyphenate(businessName)), SlugLimit)

slugifyProjectName(businessName) ==
  LET slug == Slice(TrimHyphens(Hyphenate(businessName)), SlugLimit)
  IN  IF slug = << >> THEN Site ELSE slug

\* one name is drawn and slugified in a behaviour
Slugify ==
  /\ arg = None
  /\ \E businessName \in Names :
       /\ arg' = Some(businessName)
       /\ ret' = Some(slugifyProjectName(businessName))
  /\ UNCHANGED << env, currentNode, status, history, error, context, pc, kvSession,
                  kvCredits, calls, deployCalls, reviews, creditOps, emails, crashes,
                  ledgerCalls, scratch, requests, form >>

SlugSpec == Init /\ [][Slugify]_vars

\* one identifier is drawn and looked up in a behaviour
Lookup ==
  /\ arg = None
  /\ \E nodeId \in Identifiers :
       /\ arg' = Some(nodeId)
       /\ ret' = Some(getModelId(nodeId))
  /\ UNCHANGED << env, currentNode, status, history, error, context, pc, kvSession,
                  kvCredits, calls, deployCalls, reviews, creditOps, emails, crashes,
                  ledgerCalls, scratch, requests, form >>

RouterSpec == Init /\ [][Lookup]_vars

\* one response of the quality review is drawn, decoded and routed
RouteValidate ==
  /\ arg = None
  /\ \E body \in ValidateBodies, attempts \in 1..MAX_GENERATE_ATTEMPTS :
       /\ arg' = Some([node |-> "validate", body |-> body, generateAttempts |-> attempts])
       /\ ret' = Some(ValidateRoute(parseValidateOutput(body), attempts))
  /\ UNCHANGED << env, currentNode, status, history, error, context, pc, kvSession,
                  kvCredits, calls, deployCalls, reviews, creditOps, emails, crashes,
                  ledgerCalls, scratch, requests, form >>

\* one response of the build review is drawn, decoded and routed
RouteBuildValidate ==
  /\ arg = None
  /\ \E body \in BuildValidateBodies :
       /\ arg' = Some([node |-> "build_validate", body |-> body, generateAttempts |-> 0])
       /\ ret' = Some(BuildValidateRoute(parseBuildValidateOutput(body)))
  /\ UNCHANGED << env, currentNode, status, history, error, context, pc, kvSession,
                  kvCredits, calls, deployCalls, reviews, creditOps, emails, crashes,
                  ledgerCalls, scratch, requests, form >>

ReviewSpec == Init /\ [][RouteValidate \/ RouteBuildValidate]_vars

(* ------------------------------ resumption ---------------------------- *)

\* The store keeps the state as JSON: a NaN score is written as null, and null
\* compares as 0 in the threshold tests.
Null == [nan |-> FALSE, x4 |-> 0]

Revive(slot) ==
  IF IsSome(slot) /\ Val(slot).overallScore.nan
    THEN Some([Val(slot) EXCEPT !.overallScore = Null])
    ELSE slot

\* loadSession: the stored state as kv.get returns it
loadSession ==
  LET stored == Val(kvSession) IN
  [stored EXCEPT !.context.validation = Revive(@),
                 !.context.buildValidation = Revive(@)]

\* the process dies in the middle of a run, and executeGraph is invoked again
\* on the state loadSession returns
Resume ==
  /\ env.INTAKE_KV
  /\ crashes < MaxCrashes
  /\ pc \in {"loop", "persist", "persist_final", "catch"}
  /\ IsSome(kvSession)
  /\ Val(kvSession).status = "running"
  /\ LET state == loadSession IN
     /\ currentNode' = state.currentNode
     /\ status' = state.status
     /\ history' = state.history
     /\ context' = state.context
     /\ error' = state.error
  /\ pc' = "loop"
  /\ crashes' = crashes + 1
  \* the new invocation has produced no review yet
  /\ reviews' = << >>
  /\ UNCHANGED << env, kvSession, kvCredits, calls, deployCalls, creditOps, emails,
                  ledgerCalls >>
  /\ UNCHANGED << scratch, requests, arg, ret, form >>

ResumeNext == Next \/ Resume

\* the runs explored with crashes: every capability is configured, the
\* submission is well-formed, a first one or a revision
ResumeInit ==
  /\ Init
  /\ env.INTAKE_KV
  /\ HasDeployCredentials(env)
  /\ context.intakeData = Intake("warm", TRUE, TRUE, TRUE)

\* runs that may crash and be resumed; the engine's own steps are fair, a crash
\* need not happen
ResumeSpec == ResumeInit /\ [][ResumeNext]_vars /\ WF_vars(Next)

\* executeGraph is called once more on the execution state a finished
\* invocation has left; crashes counts these calls as well
Reinvoke ==
  /\ pc \in {"returned", "thrown"}
  /\ status \in {"completed", "failed"}
  /\ crashes < MaxCrashes
  /\ pc' = "loop"
  /\ crashes' = crashes + 1
  /\ reviews' = << >>
  /\ UNCHANGED << env, currentNode, status, history, error, context, kvSession, kvCredits,
                  calls, deployCalls, creditOps, emails, ledgerCalls >>
  /\ UNCHANGED << scratch, requests, arg, ret, form >>

ReinvokeSpec == Init /\ [][Next \/ Reinvoke]_vars

(* ------------------------- intake form reducer ----------------------- *)

\* the reducer of useProjectIntake, one dispatched action at a time
NEXT_STEP ==
  /\ form' = nextStep(form)
  /\ UNCHANGED << env, currentNode, status, history, error, context, pc, kvSession,
                  kvCredits, calls, deployCalls, reviews, creditOps, emails, crashes,
                  ledgerCalls, scratch, requests, arg, ret >>

PREV_STEP ==
  /\ form' = prevStep(form)
  /\ UNCHANGED << env, currentNode, status, history, error, context, pc, kvSession,
                  kvCredits, calls, deployCalls, reviews, creditOps, emails, crashes,
                  ledgerCalls, scratch, requests, arg, ret >>

GO_TO_STEP ==
  /\ \E step \in DataSteps \cup {"review"} : form' = goToStep(form, step)
  /\ UNCHANGED << env, currentNode, status, history, error, context, pc, kvSession,
                  kvCredits, calls, deployCalls, reviews, creditOps, emails, crashes,
                  ledgerCalls, scratch, requests, arg, ret >>

UPDATE_DATA ==
  /\ \E stepKey \in DataSteps, valid \in BOOLEAN :
       form' = updateStepData(form, stepKey, valid)
  /\ UNCHANGED << env, currentNode, status, history, error, context, pc, kvSession,
                  kvCredits, calls, deployCalls, reviews, creditOps, emails, crashes,
                  ledgerCalls, scratch, requests, arg, ret >>

SUBMIT ==
  /\ form' = submitForm(form)
  /\ UNCHANGED << env, currentNode, status, history, error, context, pc, kvSession,
                  kvCredits, calls, deployCalls, reviews, creditOps, emails, crashes,
                  ledgerCalls, scratch, requests, arg, ret >>

\* the form is filled in before any request reaches the engine
FormInit ==
  /\ Init
  /\ env.INTAKE_KV /\ env.canEmail /\ HasDeployCredentials(env)
  /\ context.intakeData = Intake("warm", TRUE, TRUE, TRUE)
  /\ context.iterationCount = 0

FormSpec ==
  FormInit /\ [][NEXT_STEP \/ PREV_STEP \/ GO_TO_STEP \/ UPDATE_DATA \/ SUBMIT]_vars

\* from and to of the edges of GRAPH_EDGES
GRAPH_EDGES ==
  { << "assess", "generate" >>, << "generate", "validate" >>,
    << "validate", "sanity_check" >>, << "validate", "generate" >>,
    << "sanity_check", "build" >>, << "sanity_check", "deliver" >>,
    << "build", "build_validate" >>, << "build", "deliver" >>,
    << "build_validate", "deploy" >>, << "build_validate", "deliver" >>,
    << "deploy", "deliver" >> }

TypeOK ==
  /\ currentNode \in NodeId
  /\ status \in {"running", "completed", "failed"}
  /\ pc \in {"loop", "persist", "persist_final", "catch", "returned", "thrown"}
  /\ \A i \in 1..Len(history) : history[i].edge \in EdgeLabel

(* ------------------------ reading the history ------------------------- *)

Finished == pc \in {"returned", "thrown"}

LastRecord == history[Len(history)]


EdgeCount(edge) == Cardinality({i \in 1..Len(history) : history[i].edge = edge})

RecordsFrom(nodeId) == Cardinality({i \in 1..Len(history) : history[i].from = nodeId})

IsValidateRecord(r) == r.from = "validate"
ValidateRecords == SelectSeq(history, IsValidateRecord)

\* assess, generate and validate have all succeeded: the review has routed on
ReachedSanityCheck ==
  \E i \in 1..Len(history) : history[i].from = "validate" /\ history[i].to = "sanity_check"

StoreFault == IsSome(error) /\ Val(error) = "kv_error"

\* the run failed because the call or the decoding of stage nodeId threw
FatalAt(nodeId) ==
  status = "failed" /\ currentNode = nodeId /\ IsSome(error) /\ Val(error) \in CallFailures

\* the last thing a handler did was to leave nodeId with a transition: no
\* handler entered since has thrown
JustLeft(nodeId) ==
  /\ Len(history) > 0
  /\ LastRecord.from = nodeId
  /\ ~\E m \in NodeId : FatalAt(m)

(* ------------------------------- claims ------------------------------- *)

\* C1: quality-review routing.  Every transition out of validate is one of
\* (passes, sanity_check), (needs_revision, generate), (max_retries,
\* sanity_check); and right after a review, with the recomputed score in the
\* validation slot and the attempt counter the review saw: score >= 7 took
\* passes to sanity_check, score < 7 with fewer than 2 attempts took
\* needs_revision to generate, score < 7 with 2 or more attempts took
\* max_retries to sanity_check.
C1_ValidateRouting ==
  /\ \A i \in 1..Len(history) :
       history[i].from = "validate" =>
         << history[i].edge, history[i].to >> \in
           { << "passes", "sanity_check" >>, << "needs_revision", "generate" >>,
             << "max_retries", "sanity_check" >> }
  /\ JustLeft("validate") =>
       LET score == Val(context.validation).overallScore
           taken == << LastRecord.edge, LastRecord.to >> IN
       /\ ScoreGE(score, 7) => taken = << "passes", "sanity_check" >>
       /\ ScoreLT(score, 7) /\ context.generateAttempts < 2 =>
            taken = << "needs_revision", "generate" >>
       /\ ScoreLT(score, 7) /\ context.generateAttempts >= 2 =>
            taken = << "max_retries", "sanity_check" >>

\* C1 witness: a second review below 7 has just tripped the circuit breaker
C1_Witness ==
  /\ JustLeft("validate")
  /\ LastRecord.edge = "max_retries"
  /\ ScoreLT(Val(context.validation).overallScore, 7)
  /\ context.generateAttempts = 2

\* C2: revision loop bound.  In every state of a run started by createSession
\* with generateAttempts = 0 the attempt counter is at most 2, generate has been
\* entered at most twice and needs_revision occurs at most once in the history.
C2_RevisionLoopBound ==
  /\ context.generateAttempts <= 2
  /\ calls["generate"] <= 2
  /\ EdgeCount("needs_revision") <= 1

\* C2 witness: the second generation attempt has been made after one revision edge
C2_Witness ==
  /\ context.generateAttempts = 2
  /\ calls["generate"] = 2
  /\ EdgeCount("needs_revision") = 1

\* C3: when the first review scored >= 7, the attempt counter is 1 from then
\* on, in particular at the end of the run, and the history holds no
\* needs_revision edge.
C3_FirstPassNoRevision ==
  (Len(reviews) >= 1 /\ ScoreGE(reviews[1], 7)) =>
    /\ context.generateAttempts = 1
    /\ calls["generate"] = 1
    /\ EdgeCount("needs_revision") = 0
    /\ Len(reviews) = 1

\* C3 witness: a run whose first review passed has returned
C3_Witness ==
  /\ pc = "returned"
  /\ Len(reviews) = 1
  /\ ScoreGE(reviews[1], 7)
  /\ context.generateAttempts = 1

\* C4: when the first two reviews both scored < 7, needs_revision occurs
\* exactly once, the second review's transition is validate -> sanity_check
\* with max_retries, and generate is not entered a third time; whatever the
\* second score, the second review's transition goes to sanity_check.
C4_CircuitBreaker ==
  /\ (Len(reviews) = 2 /\ ScoreLT(reviews[1], 7) /\ ScoreLT(reviews[2], 7)) =>
       /\ EdgeCount("needs_revision") = 1
       /\ Len(ValidateRecords) = 2
       /\ ValidateRecords[2] = Transition("validate", "sanity_check", "max_retries")
       /\ calls["generate"] = 2
  /\ Len(reviews) >= 2 =>
       /\ Len(reviews) = 2
       /\ ValidateRecords[2].to = "sanity_check"
       /\ calls["generate"] = 2

\* C4 witness: a run with two failing reviews has finished past the breaker
C4_Witness ==
  /\ pc = "returned"
  /\ Len(reviews) = 2
  /\ ScoreLT(reviews[1], 7)
  /\ ScoreLT(reviews[2], 7)
  /\ EdgeCount("max_retries") = 1

\* C5: termination.  Under LiveSpec every run reaches the return or the
\* rethrow of executeGraph, and ends completed or failed; a run that returns
\* has the deliver -> deliver done record as its last record and done exactly
\* once in its history; no run stays at a stage.
C5_Termination ==
  /\ <>Finished
  /\ [](Finished => status \in {"completed", "failed"})
  /\ [](pc = "returned" =>
          /\ status = "completed"
          /\ LastRecord = Transition("deliver", "deliver", "done")
          /\ EdgeCount("done") = 1)
  /\ [](pc = "thrown" => status = "failed")

\* C5 witness: a run has returned with its single done record
C5_Witness ==
  /\ pc = "returned"
  /\ status = "completed"
  /\ EdgeCount("done") = 1
  /\ Len(history) >= 4

\* C6: graceful degradation.  A failure of sanity_check, build, build_validate
\* or deploy never fails the run: a failed run failed in assess, generate or
\* validate, or on a rejected store call.  Once assess, generate and validate
\* have succeeded, a finished run on which no store call was rejected has
\* executed the delivery stage once and is completed.
C6_GracefulDegradation ==
  /\ status = "failed" =>
       \/ StoreFault
       \/ \E n \in {"assess", "generate", "validate"} : FatalAt(n)
  /\ (Finished /\ ReachedSanityCheck /\ ~StoreFault) =>
       /\ status = "completed"
       /\ calls["deliver"] = 1
       /\ EdgeCount("done") = 1

\* C6 witness: the build call failed and the run still delivered and completed
C6_Witness ==
  /\ pc = "returned"
  /\ status = "completed"
  /\ EdgeCount("build_failed") = 1
  /\ calls["deliver"] = 1

\* C7: fatal-to-run failures.  An invocation of assess, generate or validate
\* that leaves no transition record has failed the run (the stage does not
\* catch); such a run has status failed with the error recorded, is on its way
\* to the rethrow or has rethrown, and has executed no delivery: no ledger
\* operation, no notification, no done record.
C7_FatalFailures ==
  /\ \A n \in {"assess", "generate", "validate"} :
       /\ calls[n] = RecordsFrom(n) + (IF FatalAt(n) THEN 1 ELSE 0)
       /\ FatalAt(n) =>
            /\ pc \in {"catch", "thrown"}
            /\ calls["deliver"] = 0
            /\ creditOps = 0
            /\ emails = {}
            /\ EdgeCount("done") = 0
  /\ (Finished /\ status = "failed") => (pc = "thrown" /\ IsSome(error))
  /\ calls["deliver"] > 0 => ReachedSanityCheck

\* C7 witness: the review call threw on the second attempt and the run rethrew
C7_Witness ==
  /\ pc = "thrown"
  /\ FatalAt("validate")
  /\ context.generateAttempts = 2

\* C8: a build output carries the success edge only with a document-root
\* marker: whenever the build slot or a build transition carries built, the
\* html in the build slot contains <!DOCTYPE or <html; every other outcome of
\* the build stage is the transition build -> deliver with build_failed, and
\* build is entered at most once.
C8_BuiltImpliesRootMarker ==
  /\ (IsSome(context.build) /\ Val(context.build).edge = "built") =>
       HasRootMarker(Val(context.build).html)
  /\ \A i \in 1..Len(history) :
       history[i].from = "build" =>
         \/ /\ history[i] = Transition("build", "build_validate", "built")
            /\ HasRootMarker(Val(context.build).html)
         \/ history[i] = Transition("build", "deliver", "build_failed")
  /\ calls["build"] <= 1

\* C9: build-review routing.  Right after the build review: a recomputed score
\* >= 7 took html_passes to deploy, a score < 7 or the fallback score of a
\* failed review call took html_fails to deliver; no other transition leaves
\* build_validate; the build review and the build are each entered at most once.
C9_BuildReviewRouting ==
  /\ \A i \in 1..Len(history) :
       history[i].from = "build_validate" =>
         << history[i].edge, history[i].to >> \in
           { << "html_passes", "deploy" >>, << "html_fails", "deliver" >> }
  /\ JustLeft("build_validate") =>
       LET score == Val(context.buildValidation).overallScore
           taken == << LastRecord.edge, LastRecord.to >> IN
       /\ ScoreGE(score, 7) => taken = << "html_passes", "deploy" >>
       /\ ScoreLT(score, 7) => taken = << "html_fails", "deliver" >>
       /\ Val(context.buildValidation) = BuildValidateFallback =>
            taken = << "html_fails", "deliver" >>
  /\ calls["build_validate"] <= 1
  /\ calls["build"] <= 1

\* C9 witness: the review call failed and the fallback output took html_fails
C9_Witness ==
  /\ JustLeft("build_validate")
  /\ Val(context.buildValidation) = BuildValidateFallback
  /\ LastRecord = Transition("build_validate", "deliver", "html_fails")

\* C10: deploy is attempted at most once.  The deploy stage is entered at most
\* once and deployToCloudflare is called at most once; right after the stage:
\* with a credential missing no call was made and the transition is
\* deploy_failed to deliver; with both present exactly one call was made and
\* the transition is deployed to deliver when it returned (the slot holds its
\* URL) and deploy_failed to deliver when it threw.
C10_DeployOnce ==
  /\ calls["deploy"] <= 1
  /\ deployCalls <= calls["deploy"]
  /\ JustLeft("deploy") =>
       LET missing == ~env.CLOUDFLARE_API_TOKEN \/ ~env.CLOUDFLARE_ACCOUNT_ID
           url == Val(context.deployment).deploymentUrl IN
       /\ LastRecord.to = "deliver"
       /\ missing => (deployCalls = 0 /\ LastRecord.edge = "deploy_failed")
       /\ ~missing =>
            /\ deployCalls = 1
            /\ LastRecord.edge \in {"deployed", "deploy_failed"}
            /\ (LastRecord.edge = "deployed") <=> (url # "")

\* C10 witness: the account id is missing and the stage left without a call
C10_Witness ==
  /\ JustLeft("deploy")
  /\ env.CLOUDFLARE_API_TOKEN
  /\ ~env.CLOUDFLARE_ACCOUNT_ID
  /\ deployCalls = 0
  /\ LastRecord.edge = "deploy_failed"


\* the deploy call was made and threw
DeployThrew == deployCalls = 1 /\ EdgeCount("deploy_failed") = 1

\* C11: scenario C.  A deploy_failed record is deploy -> deliver and the only
\* record that ever follows it is the terminal deliver done record.  When the
\* deploy call threw, the context holds no site URL; a run that finishes
\* without a rejected store call returns, and the returned result reports
\* completed, has no site URL, and its history ends deploy_failed, done.
C11_DeployThrows ==
  /\ \A i \in 1..Len(history) :
       history[i].edge = "deploy_failed" =>
         /\ history[i] = Transition("deploy", "deliver", "deploy_failed")
         /\ i < Len(history) =>
              /\ i + 1 = Len(history)
              /\ history[i + 1] = Transition("deliver", "deliver", "done")
  /\ DeployThrew =>
       /\ SiteUrl(context) = None
       /\ (Finished /\ ~StoreFault) => pc = "returned"
       /\ pc = "returned" =>
            /\ buildResult.status = "completed"
            /\ buildResult.siteUrl = None
            /\ Len(buildResult.history) >= 2
            /\ buildResult.history[Len(history) - 1].edge = "deploy_failed"
            /\ buildResult.history[Len(history)].edge = "done"

\* C11 witness: the deploy call threw and the run has returned
C11_Witness ==
  /\ pc = "returned"
  /\ DeployThrew
  /\ history[Len(history) - 1].edge = "deploy_failed"
  /\ LastRecord.edge = "done"

\* C12: scenario B.  Right after a gate that does not qualify (fewer than 3
\* sections among the reasons) the transition is sanity_check -> deliver with
\* skip_build.  In a run whose history holds skip_build none of build,
\* build_validate and deploy has been entered, the history holds none of
\* auto_build, built, html_passes, deployed, and the result has no site URL.
C12_GateFails ==
  /\ JustLeft("sanity_check") =>
       LET gate == Val(context.sanityCheck)
           spec == Val(context.enhancement).siteSpec IN
       /\ (~IsSome(spec) \/ Val(spec).sections < 3) => ~gate.qualifies
       /\ ~gate.qualifies =>
            LastRecord = Transition("sanity_check", "deliver", "skip_build")
  /\ EdgeCount("skip_build") > 0 =>
       /\ calls["build"] = 0 /\ calls["build_validate"] = 0 /\ calls["deploy"] = 0
       /\ deployCalls = 0
       /\ \A e \in {"auto_build", "built", "html_passes", "deployed"} : EdgeCount(e) = 0
       /\ buildResult.siteUrl = None
       /\ IsSome(context.delivery) => Val(context.delivery).siteUrl = None

\* C12 witness: a spec of two sections was refused by the gate and the run returned
C12_Witness ==
  /\ pc = "returned"
  /\ EdgeCount("skip_build") = 1
  /\ IsSome(Val(context.enhancement).siteSpec)
  /\ Val(Val(context.enhancement).siteSpec).sections = 2
  /\ calls["build"] = 0
  /\ buildResult.siteUrl = None

\* C13: the site URL of the result, and of the delivery output, is present
\* exactly when the history holds the edge deployed; it is absent in every run
\* through skip_build, build_failed, html_fails or deploy_failed.
C13_SiteUrlIffDeployed ==
  /\ IsSome(buildResult.siteUrl) <=> EdgeCount("deployed") > 0
  /\ IsSome(context.delivery) =>
       (IsSome(Val(context.delivery).siteUrl) <=> EdgeCount("deployed") > 0)
  /\ (\E e \in {"skip_build", "build_failed", "html_fails", "deploy_failed"} :
        EdgeCount(e) > 0) => buildResult.siteUrl = None

\* C13 witness: a deployed run has returned with its URL
C13_Witness ==
  /\ pc = "returned"
  /\ EdgeCount("deployed") = 1
  /\ buildResult.siteUrl = Some("https://site.pages.dev")
  /\ Val(context.delivery).siteUrl = Some("https://site.pages.dev")


\* C15: persistence ordering.  With a store configured, whenever a stage (or
\* the delivery) is about to start, the store holds the execution state with
\* every transition recorded so far; while a write is pending exactly the last
\* transition is missing from the store and no stage can start.  Without a
\* store nothing is written.
C15_PersistBeforeNextStage ==
  /\ env.INTAKE_KV =>
       /\ IsSome(kvSession)
       /\ pc = "loop" =>
            kvSession = Some(Snapshot(currentNode, status, history, context, error))
       /\ pc \in {"persist", "persist_final"} =>
            /\ Val(kvSession).history = SubSeq(history, 1, Len(history) - 1)
            /\ ~ENABLED (Assess \/ Generate \/ Validate \/ SanityCheck \/ Build
                         \/ BuildValidate \/ Deploy \/ Deliver)
  /\ ~env.INTAKE_KV => kvSession = None

\* C15 witness: the build stage is about to start and the store holds the
\* four transitions that led to it
C15_Witness ==
  /\ env.INTAKE_KV
  /\ pc = "loop"
  /\ currentNode = "build"
  /\ Len(Val(kvSession).history) = Len(history)
  /\ Val(kvSession).history[Len(history)].edge = "auto_build"

\* the state createSession leaves: no stage has been entered
Created == \A n \in NodeId : calls[n] = 0

\* C17: status lifecycle.  A created state is running at assess with an empty
\* history.  A completed state, in memory or in the store, has the deliver done
\* record as its last record and holds the delivery output; a failed state
\* holds the error.  Status changes only from running to completed, in the step
\* in which delivery is executed and appends done, or to failed on the way to
\* the rethrow.
C17_StatusLifecycle ==
  /\ [](/\ Created => (status = "running" /\ currentNode = "assess" /\ history = << >>)
        /\ status = "completed" =>
             /\ Len(history) > 0
             /\ LastRecord = Transition("deliver", "deliver", "done")
             /\ IsSome(context.delivery)
             /\ calls["deliver"] = 1
        /\ (IsSome(kvSession) /\ Val(kvSession).status = "completed") =>
             /\ Len(Val(kvSession).history) > 0
             /\ Val(kvSession).history[Len(Val(kvSession).history)].edge = "done"
        /\ status = "failed" => IsSome(error))
  /\ [][status' # status =>
          \/ /\ status = "running" /\ status' = "completed"
             /\ history' = Append(history, Transition("deliver", "deliver", "done"))
             /\ calls'["deliver"] = calls["deliver"] + 1
          \/ /\ status' = "failed"
             /\ IsSome(error')
             /\ pc' \in {"catch", "thrown"}]_vars

\* C17 witness: the completed state has been persisted
C17_Witness ==
  /\ status = "completed"
  /\ pc = "returned"
  /\ IsSome(kvSession)
  /\ Val(kvSession).status = "completed"

\* the history is a chain from assess that ends at the current stage
IsChain(h) ==
  /\ Len(h) > 0 => (h[1].from = "assess" /\ h[Len(h)].to = currentNode)
  /\ \A i \in 1..(Len(h) - 1) : h[i].to = h[i + 1].from

\* C18: entry contract on failure.  When executeGraph has thrown, the response
\* is the 502 failure body with the session id, status failed, the error
\* message and the history; the history is a chain from assess to the stage
\* the run stopped at, and holds one record per stage execution that
\* completed: every entered stage has its record, except the one execution
\* that threw.
C18_FailureResponse ==
  pc = "thrown" =>
    LET r == POST
        of(n) == Cardinality({i \in 1..Len(r.history) : r.history[i].from = n})
        threw == {n \in NodeId : of(n) # calls[n]} IN
    /\ r.code = 502
    /\ r.status = "failed"
    /\ r.sessionId = SessionId
    /\ IsSome(r.error)
    /\ IsChain(r.history)
    /\ \A n \in NodeId : of(n) <= calls[n] /\ calls[n] <= of(n) + 1
    /\ threw \subseteq {currentNode}
    /\ \A n \in {"assess", "generate", "validate"} : FatalAt(n) => threw = {n}
    /\ Len(r.history) = Len(history)

\* C18 witness: the second review threw and the response carries the four
\* transitions before it
C18_Witness ==
  /\ pc = "thrown"
  /\ FatalAt("validate")
  /\ POST.code = 502
  /\ Len(POST.history) = 4
  /\ POST.history[3].edge = "needs_revision"


\* the delivery stage has been entered
DeliveryEntered == calls["deliver"] = 1

\* the submission is a revision and a store is configured
RevisionWithStore == env.INTAKE_KV /\ context.iterationCount > 0

\* C20 as stated: scenario D.  For a revision with a store configured, a
\* delivery that has been entered has attempted the deduction, and no
\* notification is dispatched without it; with the credits exhausted the
\* delivery makes the deduction attempt and the lookup, and unless a store call
\* is rejected the run completes, dispatches, and reports 0 remaining.
C20_AsStated ==
  /\ (RevisionWithStore /\ DeliveryEntered) => creditOps >= 1
  /\ (RevisionWithStore /\ emails # {}) => creditOps >= 1
  /\ (RevisionWithStore /\ kvCredits = Exhausted /\ DeliveryEntered) =>
       /\ creditOps = 2
       /\ ~StoreFault =>
            /\ status = "completed"
            /\ Val(context.delivery).creditsRemaining = 0

\* the ledger is keyed by the contact address
RevisionWithLedger == RevisionWithStore /\ context.intakeData.email

\* C20 (amended): scenario D for a submission that carries a contact address.
\* A delivery that has been entered has attempted the deduction, no
\* notification is dispatched without it, and a delivery whose ledger calls
\* threw has dispatched nothing (the ledger calls come first).  With the
\* credits exhausted the deduction throws and the lookup follows, the ledger
\* is not written, and unless a store call is rejected the run completes,
\* dispatches its notifications, and reports 0 remaining.  Without a contact
\* address no ledger call is made.
C20_RevisionDeduction ==
  /\ (RevisionWithLedger /\ DeliveryEntered) => creditOps >= 1
  /\ (RevisionWithLedger /\ emails # {}) => creditOps >= 1
  /\ (RevisionWithLedger /\ DeliveryEntered /\ ~IsSome(context.delivery)) => emails = {}
  /\ (RevisionWithLedger /\ kvCredits = Exhausted /\ DeliveryEntered) =>
       /\ creditOps = 2
       /\ ~StoreFault =>
            /\ status = "completed"
            /\ Val(context.delivery).creditsRemaining = 0
            /\ buildResult.creditsRemaining = Some(0)
            /\ emails = Dispatched(context, env)
            /\ Finished => pc = "returned"
  /\ ~context.intakeData.email => creditOps = 0

\* C20 witness: a revision with exhausted credits was delivered with both
\* notifications and the run returned reporting 0
C20_Witness ==
  /\ pc = "returned"
  /\ RevisionWithLedger
  /\ kvCredits = Exhausted
  /\ creditOps = 2
  /\ emails = {"team", "client"}
  /\ Val(context.delivery).creditsRemaining = 0


\* C19: credit ledger invariant.  Under any interleaving of the awaits of
\* getOrCreateCredits and deductCredit calls of concurrent deliveries, the
\* stored record has 0 <= used <= total.  deductCredit reaches its write only
\* with a record that has credit left, and a deductCredit that obtains a record
\* with total - used <= 0 throws and leaves the store as it is.
C19_LedgerInvariant ==
  /\ [](/\ IsSome(kvCredits) =>
             /\ Val(kvCredits).used <= Val(kvCredits).total
             /\ Val(kvCredits).used >= 0
        /\ \A d \in Deliveries :
             ledgerCalls[d].at = "save_deduction" =>
               LET record == Val(ledgerCalls[d].record) IN
               record.total - record.used > 0)
  /\ [][\A d \in Deliveries :
          (/\ ledgerCalls[d].op = "deductCredit"
           /\ ledgerCalls[d].at = "load"
           /\ ledgerCalls'[d] # ledgerCalls[d]
           /\ IsSome(kvCredits)
           /\ Val(kvCredits).total - Val(kvCredits).used <= 0) =>
            /\ ledgerCalls'[d].outcome = "threw"
            /\ kvCredits' = kvCredits]_vars

\* C19 witness: one deduction has thrown on the full record while another,
\* which read the record with one credit left, is about to write
C19_Witness ==
  /\ IsSome(kvCredits)
  /\ Val(kvCredits).used = Val(kvCredits).total
  /\ \E d1, d2 \in Deliveries :
       /\ d1 # d2
       /\ ledgerCalls[d1].outcome = "threw"
       /\ ledgerCalls[d2].at = "save_deduction"
       /\ Val(ledgerCalls[d2].record).used = CREDITS_INCLUDED - 1

\* stage executions that have left no record in the history
Unrecorded ==
  calls["assess"] + calls["generate"] + calls["validate"] + calls["sanity_check"]
  + calls["build"] + calls["build_validate"] + calls["deploy"] + calls["deliver"]
  - Len(history)

\* the history is a path of the graph, closed by at most one done record
IsGraphPath(h) ==
  /\ IsChain(h)
  /\ \A i \in 1..Len(h) :
       \/ << h[i].from, h[i].to >> \in GRAPH_EDGES
       \/ i = Len(h) /\ h[i] = Transition("deliver", "deliver", "done")

\* C16: crash-safe resumability.  A resumed run continues at the persisted
\* current stage with the persisted history, which lacks at most the one
\* transition that was not yet written; every run finishes; each crash makes at
\* most one stage execution be repeated (an execution without a record is the
\* one lost per crash, or the one that threw); and the history always is a
\* path of the graph with at most two generation attempts.
C16_CrashResume ==
  /\ <>Finished
  /\ [][crashes' # crashes =>
          /\ pc' = "loop"
          /\ status' = "running"
          /\ currentNode' = Val(kvSession).currentNode
          /\ history' = Val(kvSession).history
          /\ Len(history) - Len(history') \in {0, 1}
          /\ history' = SubSeq(history, 1, Len(history'))]_vars
  /\ [](/\ Unrecorded >= 0
        /\ Unrecorded <= crashes + (IF status = "failed" THEN 1 ELSE 0)
        /\ pc = "returned" => status = "completed"
        /\ IsGraphPath(history)
        /\ context.generateAttempts <= 2
        /\ EdgeCount("generated") <= 2
        /\ EdgeCount("needs_revision") <= 1)

\* C16 witness: the run crashed in its second generation, was resumed, and
\* returned with two attempts in its history
C16_Witness ==
  /\ pc = "returned"
  /\ crashes = 1
  /\ calls["generate"] = 3
  /\ context.generateAttempts = 2
  /\ EdgeCount("generated") = 2

\* the dispatches a delivery with the mail service configured has to start
BothDispatches == IF context.intakeData.email THEN {"team", "client"} ELSE {"team"}

\* some dispatch of the delivery has failed
DispatchFailed ==
  /\ IsSome(context.delivery)
  /\ env.canEmail
  /\ ~(Val(context.delivery).teamEmailSent /\ Val(context.delivery).clientEmailSent)

\* C21: notification independence.  A delivery stage that has come to its
\* dispatches with the mail service configured has started every dispatch it
\* has to make, whatever the outcome of the other; for every combination of
\* outcomes the stage completes with the done record and status completed, a
\* dispatch failure never is the error of a run, and the run returns completed
\* (unless the final write of the session is rejected, which is no dispatch
\* failure).
C21_NotificationIndependence ==
  /\ (IsSome(context.delivery) /\ env.canEmail) => emails = BothDispatches
  /\ IsSome(context.delivery) =>
       /\ LastRecord = Transition("deliver", "deliver", "done")
       /\ status = "completed" \/ StoreFault
  /\ (DispatchFailed /\ Finished /\ ~StoreFault) =>
       pc = "returned" /\ status = "completed"
  /\ IsSome(error) => Val(error) \in CallFailures \cup {"kv_error", "no_enhancement"}

\* the team dispatch failed, the client dispatch was made all the same and
\* succeeded, and the run returned completed
C21_Witness ==
  /\ pc = "returned"
  /\ status = "completed"
  /\ IsSome(context.delivery)
  /\ ~Val(context.delivery).teamEmailSent
  /\ Val(context.delivery).clientEmailSent
  /\ context.intakeData.email
  /\ emails = {"team", "client"}

\* the deduction of a revision has thrown and the catch block has started its
\* lookup
DeductionFailed == RevisionWithLedger /\ DeliveryEntered /\ creditOps = 2

\* C22: a failed deduction does not affect the run.  Whenever the deduction
\* attempt of a delivery has thrown, for exhausted credits or for a rejected
\* store call, the delivery stage completes, the notifications are dispatched
\* and the run is completed (a rejected final write of the session aside).
C22_DeductionFailureCaught ==
  DeductionFailed =>
    /\ IsSome(context.delivery)
    /\ env.canEmail => emails = BothDispatches
    /\ status = "completed" \/ (StoreFault /\ LastRecord.edge = "done")

\* a write of the session has been rejected: the store error of a run that
\* has not entered delivery, or that has completed it
WriteRejected == StoreFault /\ (~DeliveryEntered \/ IsSome(context.delivery))

\* C23: store unavailable.  Without a store nothing is persisted and a run
\* whose stages do not throw returns completed; with a store whose writes are
\* rejected the run does not fail either: it goes on to return completed
\* with the done record.
C23_StoreUnavailable ==
  /\ ~env.INTAKE_KV =>
       /\ kvSession = None
       /\ ~StoreFault
       /\ (Finished /\ ~\E n \in NodeId : FatalAt(n)) =>
            pc = "returned" /\ status = "completed" /\ LastRecord.edge = "done"
  /\ WriteRejected => status # "failed"
  /\ (WriteRejected /\ Finished) => pc = "returned" /\ LastRecord.edge = "done"

\* C24: scratch-directory cleanup.  Whatever a call of deployToCloudflare
\* meets (success, a failure writing the document, a deploy CLI error or
\* timeout), the scratch directory it created no longer exists when the call
\* returns or throws: no scratch directory ever outlives its call.
C24_ScratchCleanup == scratch = 0

HasAlnum(businessName) == \E i \in 1..Len(businessName) : businessName[i].alnum

\* C25: slug derivation bounds.  For every display name the derived slug is
\* never empty, never longer than 58 characters, and is the fallback token
\* 'site' when the name is empty or holds no alphanumeric character.
C25_SlugBounds ==
  IsSome(arg) =>
    /\ Length(Val(ret)) >= 1
    /\ Length(Val(ret)) <= SlugLimit
    /\ ~HasAlnum(Val(arg)) => Val(ret) = Site

\* a name longer than the limit, with punctuation in front, cut to the limit
C25_Witness ==
  /\ IsSome(arg)
  /\ Len(Val(arg)) > 1
  /\ ~Head(Val(arg)).alnum
  /\ Length(Val(arg)) > SlugLimit + 1
  /\ Length(Val(ret)) = SlugLimit

\* the model id the routing table is said to give
RoutedModelId(nodeId) ==
  IF nodeId \in {"assess", "validate", "build_validate"}
    THEN "claude-haiku-4-5-20251001"
    ELSE "claude-sonnet-4-20250514"

\* C26: model routing.  getModelId returns the Haiku id for assess, validate
\* and build_validate, the Sonnet id for generate and build, and the Sonnet id
\* for every identifier that is not in the table; the generation call of each
\* stage carries exactly that id.
C26_ModelRouting ==
  /\ IsSome(arg) => Val(ret) = Some(RoutedModelId(Val(arg)))
  /\ \A n \in GenerationNodes :
       IsSome(requests[n]) => Val(requests[n]) = Some(RoutedModelId(n))

\* the Edge Labels table: label, source and destination of the fourteen
\* edges; the terminal done record is written with destination deliver
EDGE_LABELS ==
  { << "assess", "proceed", "generate" >>,
    << "generate", "generated", "validate" >>,
    << "validate", "passes", "sanity_check" >>,
    << "validate", "needs_revision", "generate" >>,
    << "validate", "max_retries", "sanity_check" >>,
    << "sanity_check", "auto_build", "build" >>,
    << "sanity_check", "skip_build", "deliver" >>,
    << "build", "built", "build_validate" >>,
    << "build", "build_failed", "deliver" >>,
    << "build_validate", "html_passes", "deploy" >>,
    << "build_validate", "html_fails", "deliver" >>,
    << "deploy", "deployed", "deliver" >>,
    << "deploy", "deploy_failed", "deliver" >>,
    << "deliver", "done", "deliver" >> }

\* C27: the history is the path taken.  In every reachable state the first
\* record starts at assess, every record ends where the next one starts, the
\* current stage is where the last record ends (assess while there is none),
\* and every record's source, label and destination are one of the fourteen
\* edges of the graph.
C27_HistoryIsPath ==
  /\ IsChain(history)
  /\ history = << >> => currentNode = "assess"
  /\ \A i \in 1..Len(history) :
       << history[i].from, history[i].edge, history[i].to >> \in EDGE_LABELS

\* a returned run that revised once and went all the way through deployment
C27_Witness ==
  /\ pc = "returned"
  /\ Len(history) = 10
  /\ EdgeCount("needs_revision") = 1
  /\ EdgeCount("deployed") = 1
  /\ LastRecord.edge = "done"

\* the edge field of the output in the slot of stage n, for the slots whose
\* edge the model keeps
SlotEdge(n) ==
  CASE n = "assess" -> IF IsSome(context.assessment)
                         THEN Some(Val(context.assessment).edge) ELSE None
    [] n = "generate" -> IF IsSome(context.enhancement)
                           THEN Some(Val(context.enhancement).edge) ELSE None
    [] n = "sanity_check" -> IF IsSome(context.sanityCheck)
                               THEN Some(Val(context.sanityCheck).edge) ELSE None
    [] n = "build" -> IF IsSome(context.build)
                        THEN Some(Val(context.build).edge) ELSE None
    [] n = "deploy" -> IF IsSome(context.deployment)
                         THEN Some(Val(context.deployment).edge) ELSE None
    [] OTHER -> None

\* the label of the last transition record of stage n
LastEdgeFrom(n) ==
  LET last == CHOOSE i \in 1..Len(history) :
                /\ history[i].from = n
                /\ \A j \in (i + 1)..Len(history) : history[j].from # n
  IN  history[last].edge

\* C28: the edge label is part of the stage's result.  For every stage that
\* has executed, the edge field of the output in its context slot is the
\* label of the transition record of that execution, on the fallback paths
\* too.
C28_SlotEdgeIsRecordedEdge ==
  \A n \in {"assess", "generate", "sanity_check", "build", "deploy"} :
    IsSome(SlotEdge(n)) =>
      /\ RecordsFrom(n) > 0
      /\ Val(SlotEdge(n)) = LastEdgeFrom(n)

\* the delivery is about to execute
AtDelivery == pc = "loop" /\ ~LoopContinues

\* C29: slot dependency.  When build is about to execute the enhancement
\* slot is populated; when build_validate is about to execute the build slot
\* holds a document with a root marker; when deploy is about to execute the
\* build slot holds that document and the build-validation slot a score >= 7;
\* when delivery is about to execute the enhancement slot is populated.
C29_SlotDependency ==
  /\ InLoop("build") => IsSome(context.enhancement)
  /\ InLoop("build_validate") =>
       IsSome(context.build) /\ HasRootMarker(Val(context.build).html)
  /\ InLoop("deploy") =>
       /\ IsSome(context.build) /\ HasRootMarker(Val(context.build).html)
       /\ IsSome(context.buildValidation)
       /\ ScoreGE(Val(context.buildValidation).overallScore, BUILD_VALIDATE_THRESHOLD)
  /\ AtDelivery => IsSome(context.enhancement)

\* deploy is about to execute on a reviewed document
C29_Witness ==
  /\ InLoop("deploy")
  /\ IsSome(context.build)
  /\ IsSome(context.buildValidation)
  /\ IsSome(context.enhancement)

\* the criteria of the eligibility gate, read from the context it was given
GateCriteria ==
  LET spec == Val(context.enhancement).siteSpec
      style == context.intakeData
  IN << IsSome(spec) /\ Val(spec).sections >= MIN_SECTIONS,
        IsSome(spec) /\ Val(spec).headline /\ Val(spec).subheadline,
        IsSome(context.validation)
          /\ ScoreGE(Val(context.validation).overallScore, SANITY_SCORE_THRESHOLD),
        style.stylePreset \in VALID_PRESETS
          /\ (style.stylePreset = "custom" => style.hexOk),
        style.businessName >>

FailingCriteria == {i \in 1..Len(GateCriteria) : ~GateCriteria[i]}

\* C30: eligibility gate evaluation.  The gate qualifies, with edge
\* auto_build, exactly when every criterion holds: at least 3 sections, a
\* headline and a subheadline, a review score >= 6, a recognized preset with
\* valid hex colours when it is custom, a business name.  The reasons hold one
\* entry per failing criterion, and the affirming reason alone when all pass.
C30_GateEvaluation ==
  JustLeft("sanity_check") =>
    LET gate == Val(context.sanityCheck) IN
    /\ gate.qualifies <=> FailingCriteria = {}
    /\ gate.qualifies <=> gate.edge = "auto_build"
    /\ gate.qualifies <=> LastRecord.edge = "auto_build"
    /\ gate.qualifies => gate.reasons = << "ok" >>
    /\ ~gate.qualifies =>
         /\ Len(gate.reasons) = Cardinality(FailingCriteria)
         /\ \A i \in 1..Len(gate.reasons) : gate.reasons[i] # "ok"

\* the score of the most recent quality review
ReviewScore == Val(context.validation).overallScore

\* C31: the build stage executes only on a review score >= 6.  Once the gate
\* has routed, on the passes path the score is >= 7, on the circuit-breaker
\* path the gate chose auto_build only for a score in [6, 7), and build has
\* been entered only with a score >= 6; a score that is below 6, or not a
\* number, has given skip_build.
C31_BuildNeedsScore ==
  RecordsFrom("sanity_check") > 0 =>
    /\ LastEdgeFrom("validate") = "passes" => ScoreGE(ReviewScore, VALIDATE_PASS_THRESHOLD)
    /\ (LastEdgeFrom("validate") = "max_retries" /\ EdgeCount("auto_build") = 1) =>
         /\ ScoreGE(ReviewScore, SANITY_SCORE_THRESHOLD)
         /\ ScoreLT(ReviewScore, VALIDATE_PASS_THRESHOLD)
    /\ calls["build"] > 0 => ScoreGE(ReviewScore, SANITY_SCORE_THRESHOLD)
    /\ ~ScoreGE(ReviewScore, SANITY_SCORE_THRESHOLD) => EdgeCount("skip_build") = 1

\* the average of the four sub-scores of the response drawn
DrawnAverage ==
  LET b == Val(arg).body IN
  IF Val(arg).node = "validate"
    THEN Average4(b.clarity, b.completeness, b.ctaStrength, b.sectionFlow)
    ELSE Average4(b.structuralIntegrity, b.responsiveness, b.accessibility,
                  b.brandAlignment)

\* C32: self-reported scores and edges cannot steer routing.  The route of
\* validate is given by the average of the four sub-scores of the response
\* and the attempt counter, the route of build_validate by the average of its
\* four sub-scores, whatever overallScore and edge the response reports: two
\* responses that differ only in those two fields are routed alike.
C32_ReportedFieldsIgnored ==
  IsSome(arg) =>
    IF Val(arg).node = "validate"
      THEN Val(ret) =
             IF ScoreGE(DrawnAverage, VALIDATE_PASS_THRESHOLD)
               THEN Route("sanity_check", "passes")
             ELSE IF Val(arg).generateAttempts < MAX_GENERATE_ATTEMPTS
               THEN Route("generate", "needs_revision")
             ELSE Route("sanity_check", "max_retries")
      ELSE Val(ret) =
             IF ScoreGE(DrawnAverage, BUILD_VALIDATE_THRESHOLD)
               THEN Route("deploy", "html_passes")
               ELSE Route("deliver", "html_fails")

\* a review that reports a passing score and the passes edge over failing
\* sub-scores is sent back for revision
C32_Witness ==
  /\ IsSome(arg)
  /\ Val(arg).node = "validate"
  /\ Val(arg).generateAttempts = 1
  /\ Val(arg).body.overallScore = 4 * HighScore
  /\ Val(arg).body.edge = "passes"
  /\ ScoreLT(DrawnAverage, VALIDATE_PASS_THRESHOLD)
  /\ Val(ret).edge = "needs_revision"

\* delivery d has had a deduction succeed, and the record it was handed
Deducted(d) ==
  /\ ledgerCalls[d].op = "deductCredit"
  /\ ledgerCalls[d].at = "idle"
  /\ ledgerCalls[d].outcome = "returned"

\* the write of the deduction of delivery d succeeds and stores the used
\* count the delivery read, plus one
WritesStored(d) ==
  /\ SaveDeduction(d)
  /\ ledgerCalls'[d].outcome = "returned"
  /\ Val(kvCredits').used = Val(ledgerCalls[d].record).used + 1

\* C33: credit ledger race.  Nothing ties the write of a deduction to the
\* record it read: a deduction that is awaiting its write can complete it
\* whatever the store holds by then, and what it writes is the used count it
\* read plus one.  So two concurrent deductions that read the same record
\* both succeed and leave used increased by one.
C33_LedgerRace ==
  \A d \in Deliveries :
    ledgerCalls[d].at = "save_deduction" =>
      ENABLED WritesStored(d)

\* two deliveries have each had their deduction succeed, were handed the same
\* used count, and the store holds that count: one of the two updates is lost
C33_Witness ==
  \E d1, d2 \in Deliveries :
    /\ d1 # d2
    /\ Deducted(d1)
    /\ Deducted(d2)
    /\ ledgerCalls[d1].record = ledgerCalls[d2].record
    /\ kvCredits = ledgerCalls[d1].record
    /\ Val(kvCredits).used = 1

\* the used count of the submitter, 0 while no record exists
Used(store) == IF IsSome(store) THEN Val(store).used ELSE 0

\* this step is the execution of the delivery stage
DeliverStep == calls'["deliver"] = calls["deliver"] + 1

\* what no ledger operation does: change total, delete the record, create it
\* with anything but the starting grant, or touch it outside delivery
LedgerFrame ==
  /\ kvCredits' # kvCredits => DeliverStep /\ calls["deliver"] = 0
  /\ IsSome(kvCredits) =>
       IsSome(kvCredits') /\ Val(kvCredits').total = Val(kvCredits).total
  /\ (~IsSome(kvCredits) /\ IsSome(kvCredits')) =>
       Val(kvCredits').total = CREDITS_INCLUDED
  /\ context.iterationCount = 0 => Used(kvCredits') = Used(kvCredits)
  /\ context.iterationCount > 0 => Used(kvCredits') \in {Used(kvCredits), Used(kvCredits) + 1}
  /\ kvCredits = Exhausted => kvCredits' = kvCredits

\* the delivery of a revision with a ledger key is executed, completes, and
\* the submitter has credit left
ChargeableDelivery ==
  /\ DeliverStep
  /\ RevisionWithLedger
  /\ Used(kvCredits) < CREDITS_INCLUDED
  /\ IsSome(context'.delivery)

\* C34 as stated: credit charging rule.  A run with revision counter 0 never
\* changes used; a run with revision counter > 0 increases used by exactly 1
\* when credits remain and by 0 when they are exhausted; a run deducts at most
\* one credit; total is never changed and the record never deleted.
C34_AsStated ==
  [][/\ LedgerFrame
     /\ ChargeableDelivery => Used(kvCredits') = Used(kvCredits) + 1]_vars

\* C34 (amended): as above, but a revision with credits left is charged its
\* one credit only if the deduction did not throw: when a store call of the
\* deduction is rejected the catch block looks the record up and used stays
\* as it was.
C34_CreditCharging ==
  [][/\ LedgerFrame
     /\ ChargeableDelivery =>
          \/ /\ creditOps' = creditOps + 1
             /\ Used(kvCredits') = Used(kvCredits) + 1
          \/ /\ creditOps' = creditOps + 2
             /\ Used(kvCredits') = Used(kvCredits)]_vars

\* a revision was charged: its run returned with one ledger operation and the
\* submitter's record, created by the deduction, has used 1
C34_Witness ==
  /\ pc = "returned"
  /\ RevisionWithLedger
  /\ creditOps = 1
  /\ kvCredits = Some([total |-> CREDITS_INCLUDED, used |-> 1])
  /\ Val(context.delivery).creditsRemaining = CREDITS_INCLUDED - 1

\* C35: slug shape.  For every display name the derived slug is made of runs
\* of lowercase letters and digits joined by hyphens, and neither begins nor
\* ends with a hyphen, also when it was cut at the limit.
C35_SlugShape ==
  IsSome(arg) =>
    LET slug == Val(ret) IN
    /\ slug # << >>
    /\ Head(slug).alnum
    /\ slug[Len(slug)].alnum
    /\ \A i \in 1..Len(slug) : ~slug[i].alnum => slug[i].len = 1

\* C36: classifier thresholds.  For every stage of the classification table
\* that is looked up, the tier the table assigns is the tier the routing
\* thresholds give for the stage's five dimension scores.
C36_TableFollowsThresholds ==
  (IsSome(arg) /\ Val(arg) \in DOMAIN NODE_CLASSIFICATIONS) =>
    LET classification == getNodeModel(Val(arg)) IN
    /\ classification.model = RoutingThresholds(classification.scores)
    /\ Val(ret) = Some(MODEL_IDS[classification.model])

\* C37: re-invocation on a finished state.  Once executeGraph has been called
\* again on a state that was completed or failed, no stage handler and no
\* delivery executes: no step changes the status, the history, the number of
\* executions of any stage or of the delivery, the credit record, the ledger
\* operations or the notifications dispatched.
C37_FinishedStateUntouched ==
  [][crashes > 0 =>
       UNCHANGED << status, history, calls, deployCalls, kvCredits, creditOps, emails >>]_vars

\* the generated records of the history of the stored state
StoredGenerated ==
  Cardinality({i \in 1..Len(Val(kvSession).history) :
                 Val(kvSession).history[i].edge = "generated"})

StoredAttempts == Val(kvSession).context.generateAttempts

\* C38 as stated: the attempt counter matches the audit trail.  In every
\* execution state written to the store, running, completed or failed,
\* generateAttempts is the number of generated records of its history.
C38_AsStated ==
  IsSome(kvSession) => StoredAttempts = StoredGenerated

\* C38 (amended): in every stored state that is running or completed
\* generateAttempts is the number of generated records of its history; in a
\* stored failed state it is that number, or one more when the run failed in
\* the generate stage, whose attempt was counted before its call threw.
C38_AttemptsMatchTrail ==
  IsSome(kvSession) =>
    /\ Val(kvSession).status \in {"running", "completed"} =>
         StoredAttempts = StoredGenerated
    /\ Val(kvSession).status = "failed" =>
         \/ StoredAttempts = StoredGenerated
         \/ /\ StoredAttempts = StoredGenerated + 1
            /\ Val(kvSession).currentNode = "generate"

\* the stored state of a run whose second generate call threw
C38_Witness ==
  /\ pc = "thrown"
  /\ IsSome(kvSession)
  /\ Val(kvSession).status = "failed"
  /\ Val(kvSession).currentNode = "generate"
  /\ StoredAttempts = MAX_GENERATE_ATTEMPTS
  /\ StoredGenerated = 1

\* C39: delivery flags report what was sent.  In the delivery output
\* teamEmailSent is set only if the team notification was dispatched and
\* clientEmailSent only if a confirmation was dispatched to the contact
\* address; without a contact address, or without the mail service
\* configured, clientEmailSent is not set.
C39_FlagsReportDispatch ==
  IsSome(context.delivery) =>
    LET delivery == Val(context.delivery) IN
    /\ delivery.teamEmailSent => "team" \in emails
    /\ delivery.clientEmailSent => "client" \in emails
    /\ (~context.intakeData.email \/ ~env.canEmail) => ~delivery.clientEmailSent
    /\ ~env.canEmail => ~delivery.teamEmailSent

\* C40: under any sequence of nextStep, prevStep, goToStep, updateStepData and
\* submitForm from the initial state, the current step moves forward only
\* through nextStep, by exactly one step, and only when the step being left
\* passes its validator; a nextStep whose validator fails leaves the step
\* unchanged and records its errors; goToStep never moves to a step after the
\* current one; and nextStep at review leaves the state unchanged.
C40_FormNavigation ==
  [][LET i == IndexOf(form.currentStep)
         j == IndexOf(form'.currentStep)
     IN /\ j > i => /\ form' = nextStep(form)
                    /\ j = i + 1
                    /\ StepValid(form, form.currentStep)
        /\ (form.currentStep # "review" /\ ~StepValid(form, form.currentStep))
             => /\ nextStep(form).currentStep = form.currentStep
                /\ nextStep(form).stepErrors[form.currentStep] = "errors"
        /\ \A step \in DataSteps \cup {"review"} :
             IndexOf(goToStep(form, step).currentStep) <= i
        /\ form.currentStep = "review" => nextStep(form) = form]_vars

\* the form went past the business step by a validated nextStep and was then
\* refused at the project step, whose errors are recorded
C40_Witness ==
  /\ form.currentStep = "project"
  /\ form.stepErrors["business"] = "none"
  /\ form.stepErrors["project"] = "errors"
  /\ form.data["business"]
  /\ ~form.data["project"]

====
